---------------------------- MODULE Spec2Model ----------------------------
(***************************************************************************)
(* The Iridium 9602/9603 SBD transceiver emulator: the AT command engine,  *)
(* the SBDWB binary upload, the SBDIX session and the signal ticker, as a  *)
(* state machine over the fields of class IridiumEmulator.                 *)
(*                                                                         *)
(* The repository holds two sources of the emulator: src/index.ts (the     *)
(* extended command set) and an earlier one, unnamed/part_000.  The        *)
(* variable build says which of the two is running.                        *)
(*                                                                         *)
(* Text is a sequence of one-character strings, a Buffer a sequence of     *)
(* bytes 0..255.  A step of the model is one run of JavaScript between two *)
(* awaits: Node runs it to completion before any other callback.           *)
(***************************************************************************)
EXTENDS Integers, Sequences, FiniteSets, TLC

(* ------------------------------ bounds -------------------------------- *)
\* lines the DTE sends in one behaviour
MaxLines == 3
\* chunks the binary parser delivers in one behaviour
MaxChunks == 4
\* signal ticks after the constructor's in one behaviour
MaxTicks == 2
\* bytes in one small chunk
MaxChunkLen == 2
\* lines the DTE sends in one behaviour where sessions, uploads and ticks mix
MaxMixedLines == 2

(* ------------------------- program constants -------------------------- *)
\* Buffer.alloc(340)
MoBufferSize == 340
\* length > 340
MaxMoLength == 340
\* length < 1
MinMoLength == 1
\* randomInterval(5, 10)
DrawMin == 5
DrawMax == 10

K ==
  [
    ATE0 |-> <<"A","T","E","0">>,
    ATE1 |-> <<"A","T","E","1">>,
    ATI0 |-> <<"A","T","I","0">>,
    ATI1 |-> <<"A","T","I","1">>,
    ATI2 |-> <<"A","T","I","2">>,
    ATI3 |-> <<"A","T","I","3">>,
    ATI4 |-> <<"A","T","I","4">>,
    ATI5 |-> <<"A","T","I","5">>,
    ATI6 |-> <<"A","T","I","6">>,
    ATI7 |-> <<"A","T","I","7">>,
    ATQ0 |-> <<"A","T","Q","0">>,
    ATQ1 |-> <<"A","T","Q","1">>,
    ATV0 |-> <<"A","T","V","0">>,
    ATV1 |-> <<"A","T","V","1">>,
    ATZ0 |-> <<"A","T","Z","0">>,
    ATZ1 |-> <<"A","T","Z","1">>,
    ATF0 |-> <<"A","T","&","F","0">>,
    ATK0 |-> <<"A","T","&","K","0">>,
    ATK3 |-> <<"A","T","&","K","3">>,
    ATV |-> <<"A","T","&","V">>,
    ATW0 |-> <<"A","T","&","W","0">>,
    ATW1 |-> <<"A","T","&","W","1">>,
    ATY0 |-> <<"A","T","&","Y","0">>,
    ATY1 |-> <<"A","T","&","Y","1">>,
    ATR |-> <<"A","T","%","R">>,
    FLUSH |-> <<"A","T","*","F">>,
    R0 |-> <<"A","T","*","R","0">>,
    R1 |-> <<"A","T","*","R","1">>,
    CCLK |-> <<"A","T","+","C","C","L","K">>,
    GMI |-> <<"A","T","+","G","M","I">>,
    CGMI |-> <<"A","T","+","C","G","M","I">>,
    GMM |-> <<"A","T","+","G","M","M">>,
    CGMM |-> <<"A","T","+","C","G","M","M">>,
    GMR |-> <<"A","T","+","G","M","R">>,
    CGMR |-> <<"A","T","+","C","G","M","R">>,
    GSN |-> <<"A","T","+","G","S","N">>,
    CGSN |-> <<"A","T","+","C","G","S","N">>,
    CIER |-> <<"A","T","+","C","I","E","R","=">>,
    CRIS |-> <<"A","T","+","C","R","I","S">>,
    CSQ |-> <<"A","T","+","C","S","Q">>,
    CSQF |-> <<"A","T","+","C","S","Q","F">>,
    CULK |-> <<"A","T","+","C","U","L","K">>,
    CULKQ |-> <<"A","T","+","C","U","L","K","?">>,
    IPR |-> <<"A","T","+","I","P","R">>,
    SBDWT |-> <<"A","T","+","S","B","D","W","T","=">>,
    SBDRT |-> <<"A","T","+","S","B","D","R","T">>,
    SBDWB |-> <<"A","T","+","S","B","D","W","B","=">>,
    SBDIX |-> <<"A","T","+","S","B","D","I","X">>,
    SBDIXA |-> <<"A","T","+","S","B","D","I","X","A">>,
    SBDDET |-> <<"A","T","+","S","B","D","D","E","T">>,
    SBDMTA |-> <<"A","T","+","S","B","D","M","T","A","=">>,
    SBDAREG |-> <<"A","T","+","S","B","D","A","R","E","G","=">>,
    SBDD0 |-> <<"A","T","+","S","B","D","D","0">>,
    SBDD1 |-> <<"A","T","+","S","B","D","D","1">>,
    SBDD2 |-> <<"A","T","+","S","B","D","D","2">>
  ]

T ==
  [
    OK |-> <<"O","K">>,
    ERROR |-> <<"E","R","R","O","R">>,
    READY |-> <<"R","E","A","D","Y">>,
    r0 |-> <<"0">>,
    r1 |-> <<"1">>,
    r2 |-> <<"2">>,
    r3 |-> <<"3">>,
    r2400 |-> <<"2","4","0","0">>,
    r0000 |-> <<"0","0","0","0">>,
    r8861 |-> <<"8","8","6","1">>,
    r16E |-> <<"1","6","E">>,
    Iridium |-> <<"I","r","i","d","i","u","m">>,
    ACTIVE |-> <<"A","C","T","I","V","E"," ","P","R","O","F","I","L","E",":"," ">>,
    PROFILE |-> <<"E","0"," ","Q","0"," ","V","1"," ","&","D","2"," ","&","K","0">>,
    SREGS |-> <<"S","0","0","0",":","0","1","3"," ","S","0","0","4",":","0","1","0"," ","S","0","0","5",":","0","0","8"," ","S","0","1","3",":","0","4","9"," ","S","0","1","4",":","1","6","8"," ","S","0","2","1",":","0","4","8"," ","S","0","1","3",":","0","1","2"," ","S","0","3","9",":","0","0","0">>,
    STORED0 |-> <<"S","T","O","R","E","D"," ","P","R","O","F","I","L","E"," ","0",":">>,
    STORED1 |-> <<"S","T","O","R","E","D"," ","P","R","O","F","I","L","E"," ","1",":">>,
    REGHDR |-> <<"R","E","G"," "," ","D","E","C"," ","H","E","X"," "," ","R","E","G"," "," ","D","E","C"," ","H","E","X">>,
    REGMID |-> <<" ","0","0","0"," ","0","0","H"," "," ","S">>,
    REGEND |-> <<" ","0","0","0"," ","0","0","H">>,
    CPV |-> <<"C","a","l","l"," ","P","r","o","c","e","s","s","o","r"," ","V","e","r","s","i","o","n",":"," ">>,
    DSP |-> <<"M","o","d","e","m"," ","D","S","P"," ","V","e","r","s","i","o","n",":"," ","1",".","7"," ","s","v",":"," ","4","3","4","3">>,
    DBB |-> <<"D","B","B"," ","V","e","r","s","i","o","n",":"," ","0","x","0","0","0","1"," ","(","A","S","I","C",")">>,
    RFA |-> <<"R","F","A"," ","V","e","r","s","i","o","n",":"," ","0","x","0","0","0","7"," ","(","S","R","F","A","2",")">>,
    NVM |-> <<"N","V","M"," ","V","e","r","s","i","o","n",":"," ","K","V","S">>,
    HWV |-> <<"H","a","r","d","w","a","r","e"," ","V","e","r","s","i","o","n",":"," ">>,
    BOOT |-> <<"B","O","O","T"," ","V","e","r","s","o","n",":"," ","2","0","0","4"," ","T","D","2","-","B","L","B","9","6","0","X","-","2","7"," ","R","4","7","1","0">>,
    CIEV0 |-> <<"+","C","I","E","V",":","0",",">>,
    CIEV1 |-> <<"+","C","I","E","V",":","1",",">>,
    CRIS |-> <<"+","C","R","I","S",":">>,
    CSQ |-> <<"+","C","S","Q",":">>,
    CSQF |-> <<"+","C","S","Q","F",":">>,
    SBDRT |-> <<"+","S","B","D","R","T",":">>,
    SBDIX |-> <<"+","S","B","D","I","X",":"," ">>,
    SEP |-> <<","," ">>,
    SBDDET |-> <<"+","S","B","D","D","E","T",":","0",",","0">>,
    softwareRevisionLevel |-> <<"T","A","2","0","0","0","3">>,
    productDescription |-> <<"I","R","I","D","I","U","M"," ","9","6","0","0"," ","F","a","m","i","l","y">>,
    deviceModel |-> <<"I","R","I","D","I","U","M"," ","9","6","0","0"," ","F","a","m","i","l","y"," ","S","B","D"," ","T","r","a","n","s","c","e","i","v","e","r">>,
    serialNumber |-> <<"1","0","0","0","0","0","0","0","0","0","0","0","0","0">>,
    hardwareSpecification |-> <<"B","O","O","T","0","7","d","4","/","9","6","0","3","N","r","e","v","D","E","/","0","4","/","R","A","W","0","c">>
  ]

D ==
  [
    d0000 |-> <<"0",",","0",",","0",",","0">>,
    d0100 |-> <<"0",",","1",",","0",",","0">>,
    d0010 |-> <<"0",",","0",",","1",",","0">>,
    d1000 |-> <<"1",",","0",",","0",",","0">>,
    d1100 |-> <<"1",",","1",",","0",",","0">>,
    d1010 |-> <<"1",",","0",",","1",",","0">>,
    d1110 |-> <<"1",",","1",",","1",",","0">>
  ]

CRLF == <<"\r", "\n">>

(* ------------------------ JavaScript values --------------------------- *)
\* A JavaScript number that may be NaN, or undefined.
Num(n) == [t |-> "num", n |-> n]
NaN == [t |-> "nan", n |-> 0]
Undefined == [t |-> "undefined", n |-> 0]
\* a < b, a > b, a === b for a number-or-NaN a and an integer b: every
\* comparison with NaN is false.
NumLt(a, b) == a.t = "num" /\ a.n < b
NumGt(a, b) == a.t = "num" /\ a.n > b
NumEq(a, b) == a.t = "num" /\ a.n = b
\* a + k
NumPlus(a, k) == IF a.t = "num" THEN Num(a.n + k) ELSE NaN
\* a ?? d
Coalesce(a, d) == IF a.t = "undefined" THEN d ELSE a

DecDigits == <<"0", "1", "2", "3", "4", "5", "6", "7", "8", "9">>

\* The value of a digit character in radix 16 or below; 99 for any other
\* character.
DigitValue(c) ==
  IF \E d \in 1..10 : DecDigits[d] = c
  THEN (CHOOSE d \in 1..10 : DecDigits[d] = c) - 1
  ELSE IF c \in {"a", "A"} THEN 10
  ELSE IF c \in {"b", "B"} THEN 11
  ELSE IF c \in {"c", "C"} THEN 12
  ELSE IF c \in {"d", "D"} THEN 13
  ELSE IF c \in {"e", "E"} THEN 14
  ELSE IF c \in {"f", "F"} THEN 15
  ELSE 99

RECURSIVE TrimStart(_)
TrimStart(s) ==
  IF s # <<>> /\ Head(s) \in {" ", "\t", "\n", "\r"}
  THEN TrimStart(Tail(s))
  ELSE s

RECURSIVE ParseDigits(_, _, _, _)
ParseDigits(s, radix, acc, count) ==
  IF s # <<>> /\ DigitValue(Head(s)) < radix
  THEN ParseDigits(Tail(s), radix, acc * radix + DigitValue(Head(s)), count + 1)
  ELSE [n |-> acc, count |-> count]

\* parseInt(string): leading white space, a sign, a 0x prefix, then the
\* longest run of digits; NaN when there is none.  It never throws.
parseInt(str) ==
  LET t == TrimStart(str)
      neg == t # <<>> /\ Head(t) = "-"
      u == IF t # <<>> /\ Head(t) \in {"+", "-"} THEN Tail(t) ELSE t
      hex == Len(u) >= 2 /\ u[1] = "0" /\ u[2] \in {"x", "X"}
      v == IF hex THEN Tail(Tail(u)) ELSE u
      r == ParseDigits(v, IF hex THEN 16 ELSE 10, 0, 0)
  IN  IF r.count = 0 THEN NaN ELSE Num(IF neg THEN 0 - r.n ELSE r.n)

\* `${n}` for an integer n >= 0
RECURSIVE ToStr(_)
ToStr(n) ==
  IF n < 10 THEN <<DecDigits[n + 1]>>
  ELSE ToStr(n \div 10) \o <<DecDigits[(n % 10) + 1]>>

\* String(i).padStart(3, '0')
PadStart3(n) ==
  LET s == ToStr(n)
  IN  IF Len(s) >= 3 THEN s ELSE [i \in 1..(3 - Len(s)) |-> "0"] \o s

\* data.includes('='), data.indexOf('=') (0-based, -1 when absent)
Includes(data, c) == \E i \in 1..Len(data) : data[i] = c
IndexOf(data, c) ==
  IF Includes(data, c)
  THEN (CHOOSE i \in 1..Len(data) :
          data[i] = c /\ \A j \in 1..(i - 1) : data[j] # c) - 1
  ELSE 0 - 1

\* The command key: the line up to and including its first '=', or the
\* whole line.
CommandOf(data) ==
  IF Includes(data, "=") THEN SubSeq(data, 1, IndexOf(data, "=") + 1) ELSE data

\* The detail: what follows the first '='.  Without '=' the variable stays
\* undefined; only the cases of keys ending in '=' read it, and SBDWB reads
\* it as (detail ?? ''), so undefined is written <<>> here.
DetailOf(data) ==
  IF Includes(data, "=")
  THEN SubSeq(data, IndexOf(data, "=") + 2, Len(data))
  ELSE <<>>

(* ------------------------------ Buffers ------------------------------- *)
\* #binaryBuffer = null.  A Buffer is a sequence of bytes, so -1 is none.
Null == <<0 - 1>>

\* buffer.fill(v): every byte of the buffer set, its length kept
MutFillNothing(buffer, v) == buffer
Fill(buffer, v) == [i \in 1..Len(buffer) |-> v]

\* source.copy(target): the bytes of source over the start of target, as
\* many as fit; the length of target kept
MutCopyAssign(source, target) == source
Copy(source, target) ==
  [i \in 1..Len(target) |-> IF i <= Len(source) THEN source[i] ELSE target[i]]

\* the sum of buffer[lo..hi], by halves
RECURSIVE SumBetween(_, _, _)
SumBetween(buffer, lo, hi) ==
  IF lo > hi THEN 0
  ELSE IF lo = hi THEN buffer[lo]
  ELSE SumBetween(buffer, lo, (lo + hi) \div 2)
         + SumBetween(buffer, ((lo + hi) \div 2) + 1, hi)

\* let sum = 0; for (...) sum += buffer[i]
SumTo(buffer, i) == SumBetween(buffer, 1, i)

\* calculatedChecksum[1] = sum & 0xff; sum >>= 8; calculatedChecksum[0] = sum & 0xff
calculatedChecksum(buffer) ==
  LET sum == SumTo(buffer, Len(buffer))
  IN  <<(sum \div 256) % 256, sum % 256>>


\* buffer.slice(start, end) / subarray(start, end), 0-based, end exclusive; a
\* negative index counts from the end
Slice(buffer, start, end) ==
  LET len == Len(buffer)
      from == IF start < 0 THEN (IF len + start < 0 THEN 0 ELSE len + start)
              ELSE (IF start > len THEN len ELSE start)
      to == IF end < 0 THEN (IF len + end < 0 THEN 0 ELSE len + end)
            ELSE (IF end > len THEN len ELSE end)
  IN  IF to <= from THEN <<>> ELSE SubSeq(buffer, from + 1, to)

HexDigits ==
  <<"0", "1", "2", "3", "4", "5", "6", "7", "8", "9", "a", "b", "c", "d", "e", "f">>

\* buffer.toString('hex')
RECURSIVE ToHex(_)
ToHex(buffer) ==
  IF buffer = <<>> THEN <<>>
  ELSE <<HexDigits[(Head(buffer) \div 16) + 1], HexDigits[(Head(buffer) % 16) + 1]>>
       \o ToHex(Tail(buffer))

\* index.ts: let index = 0; for (i = length - 1; i >= 0; i--) { if (buffer[i]
\* === 0x00) continue; index = i; break }: the 0-based place of the last
\* non-zero byte, 0 when there is none
LastNonZero(buffer) ==
  IF \E i \in 1..Len(buffer) : buffer[i] # 0
  THEN (CHOOSE i \in 1..Len(buffer) :
          buffer[i] # 0 /\ \A j \in (i + 1)..Len(buffer) : buffer[j] = 0) - 1
  ELSE 0

\* buffer.indexOf(0x00), 0-based, -1 when absent
IndexOfZero(buffer) ==
  IF \E i \in 1..Len(buffer) : buffer[i] = 0
  THEN (CHOOSE i \in 1..Len(buffer) :
          buffer[i] = 0 /\ \A j \in 1..(i - 1) : buffer[j] # 0) - 1
  ELSE 0 - 1

(* ------------------------------- state -------------------------------- *)
VARIABLES
  build,        \* "index" (src/index.ts) or "part_000" (unnamed/part_000)
  em,           \* the fields of the IridiumEmulator object
  timers,       \* pending setTimeout callbacks of the handlers and of the
                \* upload, in the order they were set
  tickTimers,   \* pending setTimeout callbacks of #updateSignalQuality
  keyGen,       \* generateKeyPair has been called and has not called back
  moAtReady,    \* the MO buffer as it was when binary mode was last entered
  uploaded,     \* the payload of the last upload that was stored, Null before any
  wrote,        \* the lines the last step passed to #write
  sent,         \* what the last step passed to port.write
  emitted,      \* the events the last step emitted, as <<name, payload>>
  step,         \* the last step: which callback ran, on what
  nLines,       \* lines received so far
  nChunks,      \* chunks received so far
  nTicks        \* signal ticks run so far, the constructor's not counted

vars ==
  <<build, em, timers, tickTimers, keyGen, moAtReady, uploaded, wrote, sent, emitted,
    step, nLines, nChunks, nTicks>>

\* SignalQualityRating
Ratings == {"NONE", "POOR", "OK", "GOOD", "EXCELLENT", "RANDOM"}

\* the numeric value of the enum, as `${this.signalQualityRating}` prints it
RatingNumber(r) ==
  CASE r = "NONE" -> 0 [] r = "POOR" -> 1 [] r = "OK" -> 2
    [] r = "GOOD" -> 3 [] r = "EXCELLENT" -> 4 [] r = "RANDOM" -> 5

\* the switch of #updateSignalQuality
minSignalQuality(r) ==
  CASE r = "NONE" -> 0 [] r = "POOR" -> 0 [] r = "OK" -> 1
    [] r = "GOOD" -> 3 [] r = "EXCELLENT" -> 5 [] r = "RANDOM" -> 0
maxSignalQuality(r) ==
  CASE r = "NONE" -> 0 [] r = "POOR" -> 2 [] r = "OK" -> 2
    [] r = "GOOD" -> 4 [] r = "EXCELLENT" -> 5 [] r = "RANDOM" -> 5

\* A pending callback of a handler: what the closure holds.  sig0 is the
\* signal when the line was received (kept for the record, the code does
\* not store it).
Closure(kind, data, i, sig0) ==
  [kind |-> kind, data |-> data, command |-> CommandOf(data),
   detail |-> DetailOf(data), i |-> i, sig0 |-> sig0]
NoClosure == Closure("none", <<>>, 0, 0)
TimeoutTimer == Closure("timeout", <<>>, 0, 0)

\* The durations: SIMPLE_WAIT_TIME (10..50 ms, drawn once), 2 s, LONG_WAIT_TIME
\* (15..30 s, drawn once), 60 s.
DurationClass(kind) ==
  CASE kind \in {"echo", "pre", "regs"} -> 0
    [] kind = "csq" -> 1
    [] kind = "long" -> 2
    [] kind = "timeout" -> 3

\* Node runs a timer set earlier with a duration no longer before this one.
CanFire(k) ==
  \A j \in 1..(k - 1) :
    DurationClass(timers[j].kind) > DurationClass(timers[k].kind)

\* The world an operation runs in: the object, the timers, and what the
\* step has written and emitted so far.
World ==
  em @@ [build |-> build, timers |-> timers, keyGen |-> keyGen,
         uploaded |-> uploaded, wrote |-> <<>>, sent |-> <<>>,
         emitted |-> <<>>, threw |-> FALSE]

Remove(seq, k) == SubSeq(seq, 1, k - 1) \o SubSeq(seq, k + 1, Len(seq))

WorldAt(k) == [World EXCEPT !.timers = Remove(timers, k)]

\* the fields as the run leaves them; v is the world w, evaluated once
Commit(w) ==
  \E v \in {w} :
    /\ em' = [f \in DOMAIN em |-> v[f]]
    /\ timers' = v.timers
    /\ keyGen' = v.keyGen
    /\ moAtReady' = IF v.binaryMode /\ ~em.binaryMode THEN v.moBuffer ELSE moAtReady
    /\ uploaded' = v.uploaded
    /\ wrote' = v.wrote
    /\ sent' = v.sent
    /\ emitted' = v.emitted

StepRec(op, h, chunk, draw, threw) ==
  [op |-> op, h |-> h, chunk |-> chunk, draw |-> draw, threw |-> threw]

\* an emitted event; an sbd-message carries the claims that were signed
Event(name, momsn, data, issuer) ==
  [name |-> name, momsn |-> momsn, data |-> data, issuer |-> issuer]

\* the sbd-message event: the claims, and what jwt.sign was given
SbdMessage(momsn, data, issuer) ==
  Event("sbd-message", momsn, data, issuer)
    @@ [algorithm |-> "RS256", serial |-> 206899, iridium_cep |-> 122,
        imei |-> "300534062390910", device_type |-> "ROCKBLOCK"]

(* ----------------------------- operations ----------------------------- *)
\* #write: the line is logged, and goes to the port with CRLF unless quiet
\* this.emit('log', ...) in #logger.log: a listener that throws makes emit
\* throw, and with it every caller up to the callback that is running
logThrows(w) == "log" \in w.throwing

MutWriteAlways(w, data) ==
  [w EXCEPT !.wrote = Append(@, data), !.sent = Append(@, data \o CRLF)]
write(w, data) ==
  IF w.threw \/ logThrows(w) THEN [w EXCEPT !.threw = TRUE]
  ELSE [w EXCEPT !.wrote = Append(@, data),
                 !.sent = IF w.build = "index" /\ w.quietMode THEN @
                          ELSE Append(@, data \o CRLF)]

RECURSIVE writeAll(_, _)
writeAll(w, lines) ==
  IF lines = <<>> THEN w ELSE writeAll(write(w, Head(lines)), Tail(lines))

\* await delay(...): the rest of the handler runs when the timer fires
delay(w, h) == [w EXCEPT !.timers = Append(@, h)]

\* clearTimeout(this.#binaryBufferTimeout)
RECURSIVE clearTimeout(_)
clearTimeout(ts) ==
  IF ts = <<>> THEN <<>>
  ELSE IF Head(ts).kind = "timeout" THEN clearTimeout(Tail(ts))
  ELSE <<Head(ts)>> \o clearTimeout(Tail(ts))

\* #toggleBinaryMode(binaryBufferLength?)
MutToggleNoUnpipe(w, binaryBufferLength) ==
  LET w0 == IF w.binaryBufferTimeout # "null"
            THEN [w EXCEPT !.timers = clearTimeout(@)] ELSE w
      w1 == [w0 EXCEPT !.binaryMode = ~w.binaryMode,
                       !.binaryBufferLength = Coalesce(binaryBufferLength, Num(0)),
                       !.binaryBuffer = Null]
  IN  IF w1.binaryMode
      THEN write([w1 EXCEPT !.binaryBufferTimeout = "set",
                            !.timers = Append(@, TimeoutTimer),
                            !.piped = @ \cup {"binary"}],
                 T.READY)
      ELSE [w1 EXCEPT !.piped = @ \cup {"readline"}]
MutToggleKeepsTimeout(w, binaryBufferLength) ==
  LET w1 == [w EXCEPT !.binaryMode = ~w.binaryMode,
                      !.binaryBufferLength = Coalesce(binaryBufferLength, Num(0)),
                      !.binaryBuffer = Null]
  IN  IF w1.binaryMode
      THEN write([w1 EXCEPT !.binaryBufferTimeout = "set",
                            !.timers = Append(@, TimeoutTimer),
                            !.piped = (@ \ {"readline"}) \cup {"binary"}],
                 T.READY)
      ELSE [w1 EXCEPT !.piped = (@ \ {"binary"}) \cup {"readline"}]
toggleBinaryMode(w, binaryBufferLength) ==
  LET w0 == IF w.binaryBufferTimeout # "null"
            THEN [w EXCEPT !.timers = clearTimeout(@)] ELSE w
      w1 == [w0 EXCEPT !.binaryMode = ~w.binaryMode,
                       !.binaryBufferLength = Coalesce(binaryBufferLength, Num(0)),
                       !.binaryBuffer = Null]
  IN  IF w1.binaryMode
      THEN write([w1 EXCEPT !.binaryBufferTimeout = "set",
                            !.timers = Append(@, TimeoutTimer),
                            !.piped = (@ \ {"readline"}) \cup {"binary"}],
                 T.READY)
      ELSE [w1 EXCEPT !.piped = (@ \ {"binary"}) \cup {"readline"}]

\* #handleData, the binary branch: a chunk received while #binaryMode
MutChunkReplaces(w, chunk) ==
  LET acc == chunk
      w1 == [w EXCEPT !.binaryBuffer = acc]
      buffer == Slice(acc, 0, Len(acc) - 2)
      checksum == Slice(acc, Len(acc) - 2, Len(acc))
  IN  IF NumEq(w.binaryBufferLength, Len(acc))
      THEN IF checksum = calculatedChecksum(buffer)
           THEN toggleBinaryMode(
                  write([w1 EXCEPT !.moBuffer =
                           Copy(buffer, IF w.build = "index" THEN Fill(@, 0) ELSE @),
                                   !.uploaded = buffer],
                        T.r0),
                  Undefined)
           ELSE toggleBinaryMode(write(w1, T.r2), Undefined)
      ELSE IF NumLt(w.binaryBufferLength, Len(acc))
      THEN toggleBinaryMode(write(w1, T.r2), Undefined)
      ELSE w1
MutOverflowAccumulates(w, chunk) ==
  LET acc == IF w.binaryBuffer # Null THEN w.binaryBuffer \o chunk ELSE chunk
      w1 == [w EXCEPT !.binaryBuffer = acc]
      buffer == Slice(acc, 0, Len(acc) - 2)
      checksum == Slice(acc, Len(acc) - 2, Len(acc))
  IN  IF NumEq(w.binaryBufferLength, Len(acc))
      THEN IF checksum = calculatedChecksum(buffer)
           THEN toggleBinaryMode(
                  write([w1 EXCEPT !.moBuffer =
                           Copy(buffer, IF w.build = "index" THEN Fill(@, 0) ELSE @),
                                   !.uploaded = buffer],
                        T.r0),
                  Undefined)
           ELSE toggleBinaryMode(write(w1, T.r2), Undefined)
      ELSE w1
handleBinary(w, chunk) ==
  IF logThrows(w) THEN [w EXCEPT !.threw = TRUE] ELSE
  LET acc == IF w.binaryBuffer # Null THEN w.binaryBuffer \o chunk ELSE chunk
      w1 == [w EXCEPT !.binaryBuffer = acc]
      buffer == Slice(acc, 0, Len(acc) - 2)
      checksum == Slice(acc, Len(acc) - 2, Len(acc))
  IN  IF NumEq(w.binaryBufferLength, Len(acc))
      THEN IF checksum = calculatedChecksum(buffer)
           THEN toggleBinaryMode(
                  write([w1 EXCEPT !.moBuffer =
                           Copy(buffer, IF w.build = "index" THEN Fill(@, 0) ELSE @),
                                   !.uploaded = buffer],
                        T.r0),
                  Undefined)
           ELSE toggleBinaryMode(write(w1, T.r2), Undefined)
      ELSE IF NumLt(w.binaryBufferLength, Len(acc))
      THEN toggleBinaryMode(write(w1, T.r2), Undefined)
      ELSE w1

\* #handleData up to its first await, for a Buffer received in command mode
handleStrayBuffer(w) ==
  IF logThrows(w) THEN [w EXCEPT !.threw = TRUE]
  ELSE IF w.build = "index" /\ w.readyForShutdown THEN w ELSE write(w, T.ERROR)

\* #handleData up to its first await, for a line received in command mode
MutLineIgnoresShutdown(w, data) ==
  IF w.echoEnabled
  THEN delay(w, Closure("echo", data, 0, w.currentSignalQuality))
  ELSE delay(w, Closure("pre", data, 0, w.currentSignalQuality))
handleLine(w, data) ==
  IF logThrows(w) THEN [w EXCEPT !.threw = TRUE]
  ELSE IF w.build = "index" /\ w.readyForShutdown THEN w
  ELSE IF w.echoEnabled
  THEN delay(w, Closure("echo", data, 0, w.currentSignalQuality))
  ELSE delay(w, Closure("pre", data, 0, w.currentSignalQuality))

\* ... this.#write(data) } await delay(SIMPLE_WAIT_TIME)
afterEchoWait(w, h) == delay(write(w, h.data), [h EXCEPT !.kind = "pre"])

\* length < 1 || length > 340
MutRangeFromZero(length) == NumLt(length, 0) \/ NumGt(length, MaxMoLength)
lengthOutOfRange(length) == NumLt(length, MinMoLength) \/ NumGt(length, MaxMoLength)

\* case 'AT+SBDWB='
caseSBDWB(w, detail) ==
  LET length == parseInt(detail)
  IN  IF lengthOutOfRange(length) THEN write(w, T.r3)
      ELSE toggleBinaryMode(w, NumPlus(length, 2))

\* case 'AT+CIER='
MutCierUnknownClears(w, detail) ==
  LET sig == detail \in {D.d1100, D.d1110}
      svc == detail \in {D.d1010, D.d1110}
      known == detail \in {D.d0000, D.d0100, D.d0010, D.d1000,
                           D.d1100, D.d1010, D.d1110}
      w1 == [w EXCEPT !.signalQualityIndicator = sig,
                      !.serviceAvailabilityIndicator = svc]
      w2 == write(w1, IF known THEN T.OK ELSE T.ERROR)
      w3 == IF known /\ sig
            THEN write(w2, T.CIEV0 \o ToStr(w2.currentSignalQuality)) ELSE w2
  IN  IF known /\ svc
      THEN write(w3, T.CIEV1 \o ToStr(IF w3.currentSignalQuality >= 1 THEN 1 ELSE 0))
      ELSE w3
caseCIER(w, detail) ==
  LET off == detail \in {D.d0000, D.d0100, D.d0010, D.d1000}
      known == off \/ detail \in {D.d1100, D.d1010, D.d1110}
      w1 == [w EXCEPT
               !.signalQualityIndicator = detail \in {D.d1100, D.d1110},
               !.serviceAvailabilityIndicator = detail \in {D.d1010, D.d1110}]
      w2 == write(w1, T.OK)
      w3 == IF w2.signalQualityIndicator
            THEN write(w2, T.CIEV0 \o ToStr(w2.currentSignalQuality)) ELSE w2
  IN  IF ~known THEN write(w, T.ERROR)
      ELSE IF w3.serviceAvailabilityIndicator
      THEN write(w3, T.CIEV1 \o ToStr(IF w3.currentSignalQuality >= 1 THEN 1 ELSE 0))
      ELSE w3

\* `+SBDIX: ${a}, ${moSeq}, ${b}, ${mtSeq}, 0, 0`
sbdixLine(a, moSeq, b, mtSeq) ==
  T.SBDIX \o ToStr(a) \o T.SEP \o ToStr(moSeq) \o T.SEP \o ToStr(b) \o T.SEP
    \o ToStr(mtSeq) \o T.SEP \o T.r0 \o T.SEP \o T.r0

\* case 'AT+SBDIX' / 'AT+SBDIXA', up to await delay(waitTime)
MutRadioOffWaits(w, h) == delay(w, [h EXCEPT !.kind = "long"])
caseSBDIX(w, h) ==
  IF w.build = "index" /\ ~w.radioActivityEnabled
  THEN writeAll(w, <<sbdixLine(34, w.moSequenceNo, 2, w.mtSequenceNo), T.OK>>)
  ELSE delay(w, [h EXCEPT !.kind = "long"])

\* default: a command the switch does not know
MutDefaultSilent(w) == w
caseDefault(w) == write(w, T.ERROR)

\* the switch of #handleData, after await delay(SIMPLE_WAIT_TIME)
dispatch(w, h) ==
  LET c == h.command
      ext == w.build = "index"
      ok == write(w, T.OK)
  IN  CASE c = K.ATE0 -> write([w EXCEPT !.echoEnabled = FALSE], T.OK)
        [] c = K.ATE1 -> write([w EXCEPT !.echoEnabled = TRUE], T.OK)
        [] c \in {K.ATK0, K.ATK3} -> ok
        [] c = K.CIER -> caseCIER(w, h.detail)
        [] c = K.SBDWB -> caseSBDWB(w, h.detail)
        [] c \in {K.SBDIX, K.SBDIXA} -> caseSBDIX(w, h)
        [] c = K.SBDMTA ->
             IF h.detail = <<"0">> THEN write([w EXCEPT !.ringAlertsEnabled = FALSE], T.OK)
             ELSE IF h.detail = <<"1">> THEN write([w EXCEPT !.ringAlertsEnabled = TRUE], T.OK)
             ELSE write(w, T.ERROR)
        [] c = K.SBDAREG ->
             IF h.detail \in {<<"0">>, <<"1">>, <<"2">>} THEN ok ELSE write(w, T.ERROR)
        [] c = K.SBDD0 -> write([w EXCEPT !.moBuffer = Fill(@, 0)], T.OK)
        [] c = K.SBDD1 -> write([w EXCEPT !.mtBuffer = <<>>], T.OK)
        [] c = K.SBDD2 ->
             write([w EXCEPT !.moBuffer = Fill(@, 0), !.mtBuffer = <<>>], T.OK)
        [] ext /\ c = K.ATI0 -> writeAll(w, <<T.r2400, T.OK>>)
        [] ext /\ c = K.ATI1 -> writeAll(w, <<T.r0000, T.OK>>)
        [] ext /\ c = K.ATI2 -> writeAll(w, <<T.OK, T.OK>>)
        [] ext /\ c = K.ATI3 -> writeAll(w, <<T.softwareRevisionLevel, T.OK>>)
        [] ext /\ c = K.ATI4 -> writeAll(w, <<T.productDescription, T.OK>>)
        [] ext /\ c = K.ATI5 -> writeAll(w, <<T.r8861, T.OK>>)
        [] ext /\ c = K.ATI6 -> writeAll(w, <<T.r16E, T.OK>>)
        [] ext /\ c = K.ATI7 -> writeAll(w, <<T.hardwareSpecification, T.OK>>)
        [] ext /\ c = K.ATQ0 -> write([w EXCEPT !.quietMode = FALSE], T.OK)
        [] ext /\ c = K.ATQ1 -> write([w EXCEPT !.quietMode = TRUE], T.OK)
        [] ext /\ c \in {K.ATV0, K.CCLK} -> write(w, T.ERROR)
        [] ext /\ c \in {K.ATV1, K.ATZ0, K.ATZ1, K.ATF0, K.ATW0, K.ATW1, K.ATY0,
                         K.ATY1, K.CULK, K.IPR} -> ok
        [] ext /\ c = K.ATV ->
             writeAll(w, <<T.ACTIVE, T.PROFILE, T.SREGS, T.STORED0, T.PROFILE,
                           T.SREGS, T.STORED1, T.PROFILE, T.SREGS, T.OK>>)
        [] ext /\ c = K.ATR ->
             delay(write(w, T.REGHDR), [h EXCEPT !.kind = "regs", !.i = 0])
        [] ext /\ c = K.FLUSH ->
             [w EXCEPT !.readyForShutdown = TRUE, !.quietMode = TRUE]
        [] ext /\ c = K.R0 -> write([w EXCEPT !.radioActivityEnabled = FALSE], T.OK)
        [] ext /\ c = K.R1 -> write([w EXCEPT !.radioActivityEnabled = TRUE], T.OK)
        [] ext /\ c \in {K.GMI, K.CGMI} -> writeAll(w, <<T.Iridium, T.OK>>)
        [] ext /\ c \in {K.GMM, K.CGMM} -> writeAll(w, <<T.deviceModel, T.OK>>)
        [] ext /\ c \in {K.GMR, K.CGMR} ->
             writeAll(w, <<T.CPV \o T.softwareRevisionLevel, <<>>, T.DSP, <<>>,
                           T.DBB, <<>>, T.RFA, <<>>, T.NVM, <<>>,
                           T.HWV \o T.hardwareSpecification, <<>>, T.BOOT, <<>>,
                           T.OK>>)
        [] ext /\ c \in {K.GSN, K.CGSN} -> writeAll(w, <<T.serialNumber, T.OK>>)
        [] ext /\ c = K.CRIS ->
             writeAll(w, <<T.CRIS \o (IF w.ringAlertActive THEN T.r1 ELSE T.r0), T.OK>>)
        [] ext /\ c = K.CSQ -> delay(w, [h EXCEPT !.kind = "csq"])
        [] ext /\ c = K.CSQF ->
             writeAll(w, <<T.CSQF \o ToStr(RatingNumber(w.signalQualityRating)), T.OK>>)
        [] ext /\ c = K.CULKQ -> writeAll(w, <<T.r0, T.OK>>)
        [] ext /\ c = K.SBDWT -> w
        [] ext /\ c = K.SBDRT -> writeAll(w, <<T.SBDRT, w.mtBuffer, T.OK>>)
        [] ext /\ c = K.SBDDET -> writeAll(w, <<T.SBDDET, T.OK>>)
        [] OTHER -> caseDefault(w)

\* case 'AT%R', after each await delay(SIMPLE_WAIT_TIME) of its loop
afterRegsWait(w, h) ==
  LET w1 == writeAll(w, << <<>>,
                          <<"S">> \o PadStart3(h.i) \o T.REGMID
                            \o PadStart3(h.i + 1) \o T.REGEND >>)
  IN  IF h.i + 2 < 128 THEN delay(w1, [h EXCEPT !.i = h.i + 2])
      ELSE write(w1, T.OK)

\* case 'AT+CSQ', after await delay(2 * SECOND)
afterCsqWait(w) ==
  writeAll(w, <<T.CSQ \o ToStr(RatingNumber(w.signalQualityRating)), T.OK>>)

\* this.#currentSignalQuality >= 2 ||
\*   (this.#currentSignalQuality === 1 && randomInterval(5, 10) % 10)
MutSuccessFromOne(signal, draw) == signal >= 1
success(signal, draw) == signal >= 2 \/ (signal = 1 /\ draw % 10 # 0)

\* the data field of the claims
messageData(w) ==
  IF w.build = "index"
  THEN ToHex(Slice(w.moBuffer, 0, LastNonZero(w.moBuffer) + 1))
  ELSE ToHex(Slice(w.moBuffer, 0, IndexOfZero(w.moBuffer)))

\* the issuer option of jwt.sign
issuer(w) ==
  IF w.build = "index" THEN <<"R", "o", "c", "k", " ", "7">>
  ELSE <<"R", "o", "c", "k", "7">>

\* case 'AT+SBDIX' / 'AT+SBDIXA', after await delay(waitTime).  jwt.sign
\* throws when #jwtSignerKey is still undefined: the handler ends there.
MutReplyBeforeIncrement(w, draw) ==
  LET ok == success(w.currentSignalQuality, draw)
      w0 == writeAll(w, <<sbdixLine(IF ok THEN 0 ELSE 32, w.moSequenceNo,
                                    IF ok THEN 0 ELSE 2, w.mtSequenceNo), T.OK>>)
  IN  IF ok THEN [w0 EXCEPT !.moSequenceNo = @ + 1, !.mtSequenceNo = @ + 1] ELSE w0
MutSessionClearsBuffer(w, draw) ==
  LET ok == success(w.currentSignalQuality, draw)
      w1 == IF ok
            THEN [w EXCEPT !.moSequenceNo = @ + 1, !.mtSequenceNo = @ + 1]
            ELSE w
      w2 == IF ok
            THEN [w1 EXCEPT !.emitted =
                    Append(@, SbdMessage(w1.moSequenceNo, messageData(w1),
                                         issuer(w1))),
                            !.moBuffer = Fill(@, 0)]
            ELSE w1
  IN  writeAll(w2, <<sbdixLine(IF ok THEN 0 ELSE 32, w2.moSequenceNo,
                               IF ok THEN 0 ELSE 2, w2.mtSequenceNo), T.OK>>)
MutEventBeforeIncrement(w, draw) ==
  LET ok == success(w.currentSignalQuality, draw)
      w1 == IF ok
            THEN [w EXCEPT !.emitted =
                    Append(@, SbdMessage(w.moSequenceNo, messageData(w), issuer(w)))]
            ELSE w
      w2 == IF ok
            THEN [w1 EXCEPT !.moSequenceNo = @ + 1, !.mtSequenceNo = @ + 1]
            ELSE w1
  IN  writeAll(w2, <<sbdixLine(IF ok THEN 0 ELSE 32, w2.moSequenceNo,
                               IF ok THEN 0 ELSE 2, w2.mtSequenceNo), T.OK>>)
MutOnlyMoIncrements(w, draw) ==
  LET ok == success(w.currentSignalQuality, draw)
      w1 == IF ok THEN [w EXCEPT !.moSequenceNo = @ + 1] ELSE w
  IN  writeAll(w1, <<sbdixLine(IF ok THEN 0 ELSE 32, w1.moSequenceNo,
                               IF ok THEN 0 ELSE 2, w1.mtSequenceNo), T.OK>>)
afterLongWait(w, draw) ==
  LET ok == success(w.currentSignalQuality, draw)
      w1 == IF ok
            THEN [w EXCEPT !.moSequenceNo = @ + 1, !.mtSequenceNo = @ + 1]
            ELSE w
      w2 == IF ok
            THEN [w1 EXCEPT !.emitted =
                    Append(@, SbdMessage(w1.moSequenceNo, messageData(w1),
                                         issuer(w1)))]
            ELSE w1
  IN  IF ok /\ (logThrows(w) \/ w.jwtSignerKey = "undefined"
                  \/ "sbd-message" \in w.throwing)
      THEN [w1 EXCEPT !.threw = TRUE]
      ELSE writeAll(w2, <<sbdixLine(IF ok THEN 0 ELSE 32, w2.moSequenceNo,
                                    IF ok THEN 0 ELSE 2, w2.mtSequenceNo), T.OK>>)

\* the callback of the 60 s timer of #toggleBinaryMode
MutTimeoutNoToggle(w) == write(w, T.r1)
onUploadTimeout(w) ==
  IF logThrows(w) THEN [w EXCEPT !.threw = TRUE]
  ELSE toggleBinaryMode(write(w, T.r1), Undefined)

\* #updateSignalQuality, with update the value randomInterval(min, max) drew
MutTickAlwaysWrites(w, update) ==
  LET w1 == [w EXCEPT !.currentSignalQuality = update]
      w2 == IF w1.signalQualityIndicator
            THEN write(w1, T.CIEV0 \o ToStr(update)) ELSE w1
  IN  IF w2.serviceAvailabilityIndicator
      THEN write(w2, T.CIEV1 \o ToStr(IF update >= 1 THEN 1 ELSE 0)) ELSE w2
updateSignalQuality(w, update) ==
  LET w1 == [w EXCEPT !.currentSignalQuality = update]
      w2 == IF w1.signalQualityIndicator
            THEN write(w1, T.CIEV0 \o ToStr(update)) ELSE w1
      w3 == IF w2.serviceAvailabilityIndicator
            THEN write(w2, T.CIEV1 \o ToStr(IF update >= 1 THEN 1 ELSE 0)) ELSE w2
  IN  IF logThrows(w)
      THEN [(IF w.currentSignalQuality # update THEN w1 ELSE w) EXCEPT !.threw = TRUE]
      ELSE IF w.currentSignalQuality # update THEN w3 ELSE w

\* the range randomInterval draws the update from
updateRange(w) ==
  IF w.build = "index" /\ ~w.radioActivityEnabled THEN {0}
  ELSE minSignalQuality(w.signalQualityRating)..maxSignalQuality(w.signalQualityRating)

\* the callback of generateKeyPair
onKeyGenerated(w) ==
  LET w1 == [w EXCEPT !.jwtSignerKey = "set", !.jwtSignerKeyPassphrase = "set",
                      !.keyGen = FALSE]
  IN  IF "signer-key-generated" \in w.throwing THEN [w1 EXCEPT !.threw = TRUE]
      ELSE [w1 EXCEPT !.emitted =
              Append(@, Event("signer-key-generated", 0, <<>>, <<>>))]

(* ------------------------------- Init --------------------------------- *)
\* The state the constructor leaves: the fields' initialisers, the readline
\* parser piped, the key read from a file ("file") or generateKeyPair under
\* way ("generated"), and #updateSignalQuality run once.  throwing is the
\* set of events for which the host has subscribed a listener that throws,
\* which it does right after construction.
InitObserved(builds, ratings, keys, listeners) ==
  /\ build \in builds
  /\ \E r \in ratings, k \in keys, throwing \in listeners :
       \E s \in minSignalQuality(r)..maxSignalQuality(r) :
         /\ em = [echoEnabled |-> TRUE,
                  quietMode |-> FALSE,
                  readyForShutdown |-> FALSE,
                  radioActivityEnabled |-> TRUE,
                  ringAlertsEnabled |-> FALSE,
                  ringAlertActive |-> FALSE,
                  signalQualityRating |-> r,
                  currentSignalQuality |-> s,
                  signalQualityIndicator |-> FALSE,
                  serviceAvailabilityIndicator |-> FALSE,
                  moBuffer |-> [i \in 1..MoBufferSize |-> 0],
                  moSequenceNo |-> 0,
                  mtBuffer |-> <<>>,
                  mtSequenceNo |-> 0,
                  binaryMode |-> FALSE,
                  binaryBuffer |-> Null,
                  binaryBufferLength |-> Num(0),
                  binaryBufferTimeout |-> "null",
                  jwtSignerKey |-> IF k = "file" THEN "set" ELSE "undefined",
                  jwtSignerKeyPassphrase |-> "undefined",
                  throwing |-> throwing,
                  piped |-> {"readline"},
                  binaryParser |-> <<>>]
         /\ keyGen = (k = "generated")
  /\ timers = <<>>
  /\ moAtReady = [i \in 1..MoBufferSize |-> 0]
  /\ uploaded = Null
  /\ tickTimers = 1
  /\ wrote = <<>>
  /\ sent = <<>>
  /\ emitted = <<>>
  /\ step = StepRec("constructor", NoClosure, <<>>, 0, FALSE)
  /\ nLines = 0
  /\ nChunks = 0
  /\ nTicks = 0

\* the same, with no listener that throws
InitWith(builds, ratings, keys) == InitObserved(builds, ratings, keys, {{}})

(* ------------------------------ actions ------------------------------- *)
\* The readline parser emits a line: #handleData(data) up to its first await.
\* The parser is fed only while it is piped, and it emits as it is fed.
ReceiveLine(data) ==
  /\ nLines < MaxLines
  /\ "readline" \in em.piped
  /\ ~em.binaryMode
  /\ Commit(handleLine(World, data))
  /\ step' = StepRec("line", Closure("line", data, 0, em.currentSignalQuality),
                     <<>>, 0, logThrows(World))
  /\ nLines' = nLines + 1
  /\ UNCHANGED <<build, tickTimers, nChunks, nTicks>>

\* Bytes reach the port while the inter-byte-timeout parser is piped: the
\* parser adds them to its packet and restarts its 30 ms timer.
PortBinary(bytes) ==
  /\ nChunks < MaxChunks
  /\ "binary" \in em.piped
  /\ em.binaryParser = <<>>
  /\ Commit([World EXCEPT !.binaryParser = @ \o bytes])
  /\ step' = StepRec("bytes", NoClosure, bytes, 0, FALSE)
  /\ nChunks' = nChunks + 1
  /\ UNCHANGED <<build, tickTimers, nLines, nTicks>>

\* The 30 ms timer of the binary parser fires: it emits its packet, and
\* #handleData(data) runs on the Buffer.
BinaryEmit ==
  /\ em.binaryParser # <<>>
  /\ LET w == [World EXCEPT !.binaryParser = <<>>]
     IN  Commit(IF w.binaryMode THEN handleBinary(w, em.binaryParser)
                ELSE handleStrayBuffer(w))
  /\ step' = StepRec("chunk", NoClosure, em.binaryParser, 0, logThrows(World))
  /\ UNCHANGED <<build, tickTimers, nLines, nChunks, nTicks>>

\* A handler's timer of the given kind fires and the handler runs on to its
\* next await or its end.
Resume(kind, k, w) ==
  /\ timers[k].kind = kind
  /\ CanFire(k)
  /\ Commit(w)
  /\ step' = StepRec(kind, timers[k], <<>>, 0, w.threw)
  /\ UNCHANGED <<build, tickTimers, nLines, nChunks, nTicks>>

Echo ==
  \E k \in DOMAIN timers : Resume("echo", k, afterEchoWait(WorldAt(k), timers[k]))

Dispatch ==
  \E k \in DOMAIN timers : Resume("pre", k, dispatch(WorldAt(k), timers[k]))

Registers ==
  \E k \in DOMAIN timers : Resume("regs", k, afterRegsWait(WorldAt(k), timers[k]))

SignalQualityReply ==
  \E k \in DOMAIN timers : Resume("csq", k, afterCsqWait(WorldAt(k)))

UploadTimeout ==
  \E k \in DOMAIN timers : Resume("timeout", k, onUploadTimeout(WorldAt(k)))

\* the draw is made only when the signal is 1
SessionEnd ==
  \E k \in DOMAIN timers :
    \E draw \in (IF em.currentSignalQuality = 1 THEN DrawMin..DrawMax ELSE {0}) :
      /\ timers[k].kind = "long"
      /\ CanFire(k)
      /\ LET w == afterLongWait(WorldAt(k), draw)
         IN  /\ Commit(w)
             /\ step' = StepRec("long", timers[k], <<>>, draw, w.threw)
      /\ UNCHANGED <<build, tickTimers, nLines, nChunks, nTicks>>

\* The timer of #updateSignalQuality fires: the signal is drawn again and
\* the next timer is set.
SignalTick ==
  /\ tickTimers > 0
  /\ nTicks < MaxTicks
  /\ \E update \in updateRange(World) :
       Commit(updateSignalQuality(World, update))
  /\ tickTimers' = (tickTimers - 1) + (IF logThrows(World) THEN 0 ELSE 1)
  /\ step' = StepRec("tick", NoClosure, <<>>, 0, logThrows(World))
  /\ nTicks' = nTicks + 1
  /\ UNCHANGED <<build, nLines, nChunks>>

\* generateKeyPair calls back
KeyGenerated ==
  /\ keyGen
  /\ Commit(onKeyGenerated(World))
  /\ step' = StepRec("keygen", NoClosure, <<>>, 0,
                     "signer-key-generated" \in em.throwing)
  /\ UNCHANGED <<build, tickTimers, nLines, nChunks, nTicks>>

(* --------------------------- specifications --------------------------- *)
\* the byte values the DTE sends
ByteValues == {0, 1}

\* what reaches the port in one burst: 1..MaxChunkLen bytes
PortChunks == UNION {[1..n -> ByteValues] : n \in 1..MaxChunkLen}

\* The upload on src/index.ts: two lengths, the clearing of the MO buffer,
\* bursts of bytes, the 60 s timeout.
UploadLines == {K.SBDWB \o <<"1">>, K.SBDWB \o <<"2">>, K.SBDD0}

NextUpload ==
  \/ \E data \in UploadLines : ReceiveLine(data)
  \/ \E bytes \in PortChunks : PortBinary(bytes)
  \/ BinaryEmit
  \/ Echo
  \/ Dispatch
  \/ UploadTimeout

SpecUpload ==
  InitWith({"index"}, {"EXCELLENT"}, {"file"}) /\ [][NextUpload]_vars

\* The same upload on the earlier source, unnamed/part_000.
SpecUploadBase ==
  InitWith({"part_000"}, {"EXCELLENT"}, {"file"}) /\ [][NextUpload]_vars

\* AT+SBDWB= with lengths in and out of range and with details that are no
\* number.
LengthLines ==
  {K.SBDWB \o <<"1">>, K.SBDWB \o <<"3", "4", "0">>,
   K.SBDWB \o <<"0">>, K.SBDWB \o <<"-", "1">>, K.SBDWB \o <<"3", "4", "1">>,
   K.SBDWB, K.SBDWB \o <<"a", "b">>}

NextLength ==
  \/ \E data \in LengthLines : ReceiveLine(data)
  \/ Echo
  \/ Dispatch
  \/ UploadTimeout

SpecLength ==
  InitWith({"index"}, {"EXCELLENT"}, {"file"}) /\ [][NextLength]_vars

TimeoutLines == {K.SBDWB \o <<"2">>, K.SBDWB}

NextTimeout ==
  \/ \E data \in TimeoutLines : nLines < MaxMixedLines /\ ReceiveLine(data)
  \/ \E bytes \in PortChunks : PortBinary(bytes)
  \/ BinaryEmit
  \/ Echo
  \/ Dispatch
  \/ UploadTimeout

\* the callback of a timer: the binary parser's 30 ms timer or a handler's
TimerStep == BinaryEmit \/ Echo \/ Dispatch \/ UploadTimeout

\* The upload under the scheduling of Node's event loop, which runs the
\* callback of a timer that is due: weak fairness of the timers' steps.
SpecTimeout ==
  /\ InitWith({"index"}, {"EXCELLENT"}, {"file"})
  /\ [][NextTimeout]_vars
  /\ WF_vars(TimerStep)

\* Sessions on src/index.ts: the radio switch, signal ticks under a rating
\* of no signal or of 0..2 bars, and the key either read from a file or
\* generated.
SessionLines == {K.SBDIX, K.R0}

NextSession ==
  \/ \E data \in SessionLines : ReceiveLine(data)
  \/ Echo
  \/ Dispatch
  \/ SessionEnd
  \/ SignalTick
  \/ KeyGenerated

SpecSession ==
  InitWith({"index"}, {"NONE", "POOR"}, {"file", "generated"})
    /\ [][NextSession]_vars

\* Everything together on src/index.ts: an upload, sessions, the timeout,
\* signal ticks, and the key either read from a file or generated.
AllLines == {K.SBDWB \o <<"1">>, K.SBDIX}

Next ==
  \/ \E data \in AllLines : nLines < MaxMixedLines /\ ReceiveLine(data)
  \/ \E bytes \in PortChunks : PortBinary(bytes)
  \/ BinaryEmit
  \/ Echo
  \/ Dispatch
  \/ UploadTimeout
  \/ SessionEnd
  \/ SignalTick
  \/ KeyGenerated

Spec == InitWith({"index"}, {"POOR"}, {"file", "generated"}) /\ [][Next]_vars

(* ------------------------- the binary upload -------------------------- *)
\* the bytes accumulated once the chunk has arrived
FrameWith(chunk) ==
  IF em.binaryBuffer = Null THEN chunk ELSE em.binaryBuffer \o chunk

RECURSIVE SumBytes(_)
SumBytes(s) ==
  IF s = <<>> THEN 0
  ELSE IF Len(s) = 1 THEN s[1]
  ELSE SumBytes(SubSeq(s, 1, Len(s) \div 2))
         + SumBytes(SubSeq(s, (Len(s) \div 2) + 1, Len(s)))

\* the two-byte big-endian checksum of a payload: the low 16 bits of the sum
ChecksumOf(payload) ==
  <<(SumBytes(payload) \div 256) % 256, SumBytes(payload) % 256>>

PayloadOf(frame) == SubSeq(frame, 1, Len(frame) - 2)
TrailerOf(frame) == SubSeq(frame, Len(frame) - 1, Len(frame))

\* the payload at the start of a 340-byte buffer, zeros behind it
ZeroPadded(payload) ==
  [i \in 1..340 |-> IF i <= Len(payload) THEN payload[i] ELSE 0]

TimeoutPending(ts) == \E k \in DOMAIN ts : ts[k].kind = "timeout"

\* the step delivers a chunk that brings the accumulated bytes to exactly
\* the expected L + 2 with a trailing checksum that matches
UploadSucceeds ==
  /\ step'.op = "chunk"
  /\ em.binaryMode
  /\ em.binaryBufferLength = Num(Len(FrameWith(step'.chunk)))
  /\ TrailerOf(FrameWith(step'.chunk)) = ChecksumOf(PayloadOf(FrameWith(step'.chunk)))

\* the step delivers a chunk that brings the accumulated bytes to exactly
\* the expected L + 2 with a trailing checksum that does not match
UploadMismatches ==
  /\ step'.op = "chunk"
  /\ em.binaryMode
  /\ em.binaryBufferLength = Num(Len(FrameWith(step'.chunk)))
  /\ TrailerOf(FrameWith(step'.chunk)) # ChecksumOf(PayloadOf(FrameWith(step'.chunk)))

\* C1: an upload of L payload bytes with a matching checksum writes '0' and
\* leaves the MO buffer holding exactly those L bytes at offsets 0..L-1 and
\* 0x00 at every offset from L to 339, whatever the buffer held before.
C1_UploadReplacesMoBuffer ==
  [][UploadSucceeds =>
       /\ wrote' = <<T.r0>>
       /\ em'.moBuffer = ZeroPadded(PayloadOf(FrameWith(step'.chunk)))]_vars

\* C1 on src/index.ts, which clears the buffer before the copy: a shorter
\* payload has replaced a longer one
C1_ShorterAfterLonger ==
  /\ step.op = "chunk"
  /\ wrote = <<T.r0>>
  /\ moAtReady[2] = 1
  /\ em.moBuffer = ZeroPadded(<<1>>)

\* C2: an upload that reaches exactly the expected L + 2 bytes with a
\* checksum that does not match writes '2', returns to command mode with the
\* timeout cancelled, and leaves the MO buffer byte for byte what it was
\* before the upload began.
C2_MoBufferAsBeforeUpload ==
  [][UploadMismatches =>
       /\ wrote' = <<T.r2>>
       /\ ~em'.binaryMode
       /\ ~TimeoutPending(timers')
       /\ em'.moBuffer = moAtReady]_vars

\* What the mismatch branch does by itself: it writes '2', leaves binary
\* mode, cancels the timeout and does not touch the MO buffer; while in
\* binary mode the buffer changes only on an upload that succeeds or when an
\* AT+SBDD0 or AT+SBDD2 received before READY is dispatched.
MismatchBranchKeepsMoBuffer ==
  [][/\ UploadMismatches =>
          /\ wrote' = <<T.r2>>
          /\ ~em'.binaryMode
          /\ ~TimeoutPending(timers')
          /\ em'.moBuffer = em.moBuffer
     /\ (em.binaryMode /\ em'.moBuffer # em.moBuffer) =>
          \/ UploadSucceeds
          \/ step'.op = "pre" /\ step'.h.command \in {K.SBDD0, K.SBDD2}]_vars

\* C7: the MO buffer is 340 bytes long in every state.
C7_MoBufferLength == Len(em.moBuffer) = 340

\* an upload has been stored after a signal tick and a session
C7_StoredAfterTickAndSession ==
  /\ step.op = "chunk"
  /\ wrote = <<T.r0>>
  /\ em.moBuffer[1] = 1
  /\ nTicks > 0
  /\ em.moSequenceNo > 0

(* ------------------------ AT+SBDWB=<length> --------------------------- *)
\* an optional minus sign and one or more decimal digits
IsDecimalInteger(s) ==
  LET body == IF s # <<>> /\ Head(s) = "-" THEN Tail(s) ELSE s
  IN  /\ body # <<>>
      /\ \A i \in DOMAIN body : \E d \in DOMAIN DecDigits : DecDigits[d] = body[i]

RECURSIVE DigitsValue(_)
DigitsValue(s) ==
  IF s = <<>> THEN 0
  ELSE 10 * DigitsValue(SubSeq(s, 1, Len(s) - 1)) + DigitValue(s[Len(s)])

DecimalValue(s) ==
  IF Head(s) = "-" THEN 0 - DigitsValue(Tail(s)) ELSE DigitsValue(s)

\* the step that has just been taken dispatched AT+SBDWB=<detail>
DispatchedLength == step.op = "pre" /\ step.h.command = K.SBDWB

\* C3: AT+SBDWB=<detail> with a detail that is no decimal integer writes '3'
\* and stays in command mode: binaryMode remains false, no timeout is armed,
\* READY is not written.
C3_UnparsableLengthRejected ==
  [][(DispatchedLength' /\ ~IsDecimalInteger(step'.h.detail) /\ ~em.binaryMode) =>
       /\ wrote' = <<T.r3>>
       /\ ~em'.binaryMode
       /\ ~TimeoutPending(timers')]_vars

\* C4: AT+SBDWB=<len> with an integer len outside 1..340 writes '3' and
\* switches nothing: binaryMode, binaryBufferLength, the accumulator, the
\* timeout and the MO buffer are unchanged.
C4_OutOfRangeLengthRejected ==
  [][(/\ DispatchedLength'
      /\ IsDecimalInteger(step'.h.detail)
      /\ DecimalValue(step'.h.detail) \notin 1..340) =>
       /\ wrote' = <<T.r3>>
       /\ em'.binaryMode = em.binaryMode
       /\ em'.binaryBufferLength = em.binaryBufferLength
       /\ em'.binaryBuffer = em.binaryBuffer
       /\ em'.binaryBufferTimeout = em.binaryBufferTimeout
       /\ TimeoutPending(timers') = TimeoutPending(timers)
       /\ em'.moBuffer = em.moBuffer]_vars

\* a length of 341 was rejected while an earlier AT+SBDWB=1 had the
\* emulator in binary mode, and it is in binary mode still
C4_RejectedDuringUpload ==
  /\ DispatchedLength
  /\ step.h.detail = <<"3", "4", "1">>
  /\ wrote = <<T.r3>>
  /\ em.binaryMode
  /\ em.binaryBufferLength = Num(3)
  /\ TimeoutPending(timers)

\* C5: every dispatched AT+SBDWB=<len> with len in 1..340 leaves the
\* emulator in binary mode with an expected length of len + 2, the 60 s
\* timeout armed and READY written, for every interleaving of the handlers.
C5_LengthEntersBinaryMode ==
  (/\ DispatchedLength
   /\ IsDecimalInteger(step.h.detail)
   /\ DecimalValue(step.h.detail) \in 1..340) =>
    /\ em.binaryMode
    /\ em.binaryBufferLength = Num(DecimalValue(step.h.detail) + 2)
    /\ TimeoutPending(timers)
    /\ wrote = <<T.READY>>

(* ----------------------------- the timeout ---------------------------- *)
\* C6: when the 60 s timeout fires the emulator writes '1', returns to
\* command mode and leaves the MO buffer unchanged; binary mode always
\* eventually ends.
C6_TimeoutEndsBinaryMode ==
  /\ [][step'.op = "timeout" =>
          /\ wrote' = <<T.r1>>
          /\ ~em'.binaryMode
          /\ em'.moBuffer = em.moBuffer]_vars
  /\ (em.binaryMode ~> ~em.binaryMode)

\* the timeout has fired on an upload that was short of its length
C6_TimedOutShort ==
  /\ step.op = "timeout"
  /\ wrote = <<T.r1>>
  /\ ~em.binaryMode
  /\ nChunks > 0

(* ---------------------------- the session ----------------------------- *)
\* the step is the end of a session's long wait
SessionEnds == step'.op = "long"

\* the reply of the session that has just ended reports success: the code
\* after "+SBDIX: " is 0
RepliedSuccess == wrote # <<>> /\ wrote[1][9] = "0"

\* the session that has just ended had success for its outcome: it replied
\* so, or it ended in jwt.sign, which only a session that succeeds calls
Succeeded == RepliedSuccess \/ step.threw

\* C8: moSeq and mtSeq never decrease; a session that succeeds increases both
\* by exactly 1, a session that fails leaves both unchanged, and no other
\* step (a command, an upload, the timeout, a signal tick) changes either.
C8_CountersFollowSessions ==
  [][/\ em'.moSequenceNo >= em.moSequenceNo
     /\ em'.mtSequenceNo >= em.mtSequenceNo
     /\ (SessionEnds /\ Succeeded') =>
          /\ em'.moSequenceNo = em.moSequenceNo + 1
          /\ em'.mtSequenceNo = em.mtSequenceNo + 1
     /\ ~(SessionEnds /\ Succeeded') =>
          /\ em'.moSequenceNo = em.moSequenceNo
          /\ em'.mtSequenceNo = em.mtSequenceNo]_vars

\* a session has failed after an earlier one had succeeded: the counters
\* are 1 and 1 still
C8_FailedAfterSuccess ==
  /\ step.op = "long"
  /\ wrote = <<sbdixLine(32, 1, 2, 1), T.OK>>
  /\ em.moSequenceNo = 1
  /\ em.mtSequenceNo = 1

C10_SessionReply ==
  [][(SessionEnds /\ ~step'.threw) =>
       LET line == IF em'.moSequenceNo = em.moSequenceNo + 1
                   THEN sbdixLine(0, em.moSequenceNo + 1, 0, em.mtSequenceNo + 1)
                   ELSE sbdixLine(32, em.moSequenceNo, 2, em.mtSequenceNo)
       IN  /\ wrote' = <<line, T.OK>>
           /\ sent' = <<line \o CRLF, T.OK \o CRLF>>]_vars

\* the second session to succeed has replied with both counters at 2
C10_SecondSuccessReplied ==
  /\ step.op = "long"
  /\ ~step.threw
  /\ wrote = << <<"+", "S", "B", "D", "I", "X", ":", " ", "0", ",", " ", "2",
                  ",", " ", "0", ",", " ", "2", ",", " ", "0", ",", " ", "0">>,
                T.OK >>
  /\ em.moSequenceNo = 2

(* ------------------------- the sbd-message ---------------------------- *)
\* the sbd-message events among the events of a step
SbdMessages(events) ==
  {i \in DOMAIN events : events[i].name = "sbd-message"}

\* the session that ends in this step has success for its outcome: it is
\* the one step that increments moSeq (C8)
SessionSucceeds == SessionEnds /\ em'.moSequenceNo = em.moSequenceNo + 1

\* the bytes up to the last one that is not zero
StripTrailingZeros(bytes) ==
  LET nonzero == {i \in DOMAIN bytes : bytes[i] # 0}
  IN  IF nonzero = {} THEN <<>>
      ELSE SubSeq(bytes, 1, CHOOSE i \in nonzero : \A j \in nonzero : j <= i)

\* C11: exactly one sbd-message is emitted for each session that succeeds
\* and none by any other step; under the rating NONE no sbd-message is ever
\* emitted and moSeq stays 0.
C11_OneMessagePerSuccess ==
  [][/\ SessionSucceeds => Cardinality(SbdMessages(emitted')) = 1
     /\ ~SessionSucceeds => SbdMessages(emitted') = {}
     /\ em.signalQualityRating = "NONE" =>
          SbdMessages(emitted') = {} /\ em'.moSequenceNo = 0]_vars

\* C11 once the signer key is there: with #jwtSignerKey set, one sbd-message
\* per session that succeeds and none otherwise
OneMessagePerSuccessWithKey ==
  [][em.jwtSignerKey # "undefined" =>
       /\ SessionSucceeds => Cardinality(SbdMessages(emitted')) = 1
       /\ ~SessionSucceeds => SbdMessages(emitted') = {}]_vars

\* C12: round trip: after a checksum-valid upload of the payload P, with
\* the MO buffer not written or cleared since, a session that succeeds emits
\* an sbd-message whose data is the hex encoding of P without its trailing
\* zero bytes, the empty string for a payload of zero bytes only.
C12_UploadRoundTrip ==
  [][(/\ SessionSucceeds
      /\ uploaded # Null
      /\ em.moBuffer = ZeroPadded(uploaded)) =>
       \A i \in SbdMessages(emitted') :
         emitted'[i].data = ToHex(StripTrailingZeros(uploaded))]_vars

\* C13: at a session's success the data field is the hex encoding of the
\* MO buffer up to its last non-zero byte, the empty string when the buffer
\* is zero throughout.
C13_DataIsTrimmedMoBuffer ==
  [][SessionSucceeds =>
       \A i \in SbdMessages(emitted') :
         emitted'[i].data = ToHex(StripTrailingZeros(em.moBuffer))]_vars

\* C14: every sbd-message is signed with RS256 and the issuer "Rock7", its
\* momsn is moSeq after the increment, and it carries serial 206899,
\* iridium_cep 122, imei "300534062390910", device_type "ROCKBLOCK".
C14_SignedClaims ==
  [][\A i \in SbdMessages(emitted') :
       /\ emitted'[i].algorithm = "RS256"
       /\ emitted'[i].issuer = <<"R", "o", "c", "k", "7">>
       /\ emitted'[i].momsn = em.moSequenceNo + 1
       /\ emitted'[i].momsn = em'.moSequenceNo
       /\ emitted'[i].serial = 206899
       /\ emitted'[i].iridium_cep = 122
       /\ emitted'[i].imei = "300534062390910"
       /\ emitted'[i].device_type = "ROCKBLOCK"]_vars

\* C14 but for the issuer: the algorithm, momsn and the constant fields
SignedClaimsButIssuer ==
  [][\A i \in SbdMessages(emitted') :
       /\ emitted'[i].algorithm = "RS256"
       /\ emitted'[i].momsn = em'.moSequenceNo
       /\ emitted'[i].serial = 206899
       /\ emitted'[i].iridium_cep = 122
       /\ emitted'[i].imei = "300534062390910"
       /\ emitted'[i].device_type = "ROCKBLOCK"]_vars

(* --------------------------- the indicators --------------------------- *)
\* AT+CIER= with each detail the switch accepts and one it does not, and
\* signal ticks under a rating of 0..2 bars
IndicatorLines ==
  {K.CIER \o d : d \in {D.d0000, D.d0100, D.d0010, D.d1000,
                        D.d1100, D.d1010, D.d1110, <<"2">>}}

NextIndicator ==
  \/ \E data \in IndicatorLines : nLines < MaxMixedLines /\ ReceiveLine(data)
  \/ Echo
  \/ Dispatch
  \/ SignalTick

SpecIndicator ==
  InitWith({"index"}, {"POOR"}, {"file"}) /\ [][NextIndicator]_vars

\* the step that has just been taken dispatched AT+CIER=<detail>
DispatchedIndicators == step.op = "pre" /\ step.h.command = K.CIER

\* '+CIEV:0,<signal>' if the signal indicator is on, then
\* '+CIEV:1,<1 if signal >= 1 else 0>' if the service indicator is on
IndicatorLinesFor(sigInd, svcInd, signal) ==
  (IF sigInd THEN << <<"+", "C", "I", "E", "V", ":", "0", ",">> \o ToStr(signal) >>
   ELSE <<>>)
  \o (IF svcInd
      THEN << <<"+", "C", "I", "E", "V", ":", "1", ",">>
                \o (IF signal >= 1 THEN <<"1">> ELSE <<"0">>) >>
      ELSE <<>>)

\* C15: AT+CIER=<detail> sets the signal and service indicators to (F,F) for
\* 0,0,0,0 / 0,1,0,0 / 0,0,1,0 / 1,0,0,0, (T,F) for 1,1,0,0, (F,T) for
\* 1,0,1,0, (T,T) for 1,1,1,0, writes OK and then the +CIEV line of each
\* enabled indicator, signal first; any other detail writes ERROR and
\* leaves both flags unchanged.
C15_IndicatorTable ==
  [][DispatchedIndicators' =>
       LET d == step'.h.detail
           sigInd == d \in {D.d1100, D.d1110}
           svcInd == d \in {D.d1010, D.d1110}
       IN  IF d \in {D.d0000, D.d0100, D.d0010, D.d1000,
                     D.d1100, D.d1010, D.d1110}
           THEN /\ em'.signalQualityIndicator = sigInd
                /\ em'.serviceAvailabilityIndicator = svcInd
                /\ wrote' = <<T.OK>>
                     \o IndicatorLinesFor(sigInd, svcInd, em.currentSignalQuality)
           ELSE /\ wrote' = <<T.ERROR>>
                /\ em'.signalQualityIndicator = em.signalQualityIndicator
                /\ em'.serviceAvailabilityIndicator = em.serviceAvailabilityIndicator]_vars

\* a detail the switch does not know was refused while both indicators
\* were on, and they are on still
C15_RefusedKeepsFlags ==
  /\ DispatchedIndicators
  /\ step.h.detail = <<"2">>
  /\ wrote = <<T.ERROR>>
  /\ em.signalQualityIndicator
  /\ em.serviceAvailabilityIndicator

\* C16: a signal tick that changes the signal writes exactly one
\* '+CIEV:0,<next>' if the signal indicator is enabled and exactly one
\* '+CIEV:1,<1 if next >= 1 else 0>' if the service indicator is enabled; a
\* tick that leaves the signal unchanged writes no line.
C16_TickReportsChange ==
  [][step'.op = "tick" =>
       /\ em'.signalQualityIndicator = em.signalQualityIndicator
       /\ em'.serviceAvailabilityIndicator = em.serviceAvailabilityIndicator
       /\ wrote' = IF em'.currentSignalQuality # em.currentSignalQuality
                   THEN IndicatorLinesFor(em.signalQualityIndicator,
                                          em.serviceAvailabilityIndicator,
                                          em'.currentSignalQuality)
                   ELSE <<>>]_vars

\* with both indicators on, the second tick has taken the signal to 0 and
\* written both lines
C16_SecondTickWroteBoth ==
  /\ step.op = "tick"
  /\ nTicks = 2
  /\ em.signalQualityIndicator
  /\ em.serviceAvailabilityIndicator
  /\ em.currentSignalQuality = 0
  /\ wrote = << <<"+", "C", "I", "E", "V", ":", "0", ",", "0">>,
                <<"+", "C", "I", "E", "V", ":", "1", ",", "0">> >>

(* ----------------------------- the signal ----------------------------- *)
\* the bars of each rating: NONE 0..0, POOR 0..2, OK 1..2, GOOD 3..4,
\* EXCELLENT 5..5, RANDOM 0..5
RatingRange(r) ==
  CASE r = "NONE" -> 0..0
    [] r = "POOR" -> 0..2
    [] r = "OK" -> 1..2
    [] r = "GOOD" -> 3..4
    [] r = "EXCELLENT" -> 5..5
    [] r = "RANDOM" -> 0..5

\* C17: in every state the signal lies in the range of the configured rating
\* while radioActivityEnabled is true and is 0 while it is false, also right
\* after AT*R0 and AT*R1 and before the next signal tick.
C17_SignalFollowsRadio ==
  IF em.radioActivityEnabled
  THEN em.currentSignalQuality \in RatingRange(em.signalQualityRating)
  ELSE em.currentSignalQuality = 0

\* C17 for what the ticker does: after a tick the signal is in the range of
\* the rating, or 0 with the radio disabled
TickFollowsRadio ==
  [][step'.op = "tick" =>
       IF em.radioActivityEnabled
       THEN em'.currentSignalQuality \in RatingRange(em.signalQualityRating)
       ELSE em'.currentSignalQuality = 0]_vars

(* ---------------------------- the shutdown ---------------------------- *)
\* AT*F with commands in flight: ATQ0, and AT+CSQ with its 2 s wait
ShutdownLines == {K.FLUSH, K.ATQ0, K.CSQ}

NextShutdown ==
  \/ \E data \in ShutdownLines : ReceiveLine(data)
  \/ Echo
  \/ Dispatch
  \/ SignalQualityReply

SpecShutdown ==
  InitWith({"index"}, {"EXCELLENT"}, {"file"}) /\ [][NextShutdown]_vars

\* C18: once AT*F has been executed no command writes bytes to the
\* transport again, neither one received afterwards nor one received
\* earlier and still suspended in a wait.
C18_SilentAfterFlush ==
  [][em.readyForShutdown => sent' = <<>>]_vars

\* C18 for the commands received after AT*F: their handlers end at once
ReceivedAfterFlushIgnored ==
  [][(em.readyForShutdown /\ step'.op = "line") =>
       /\ wrote' = <<>>
       /\ timers' = timers
       /\ em' = em]_vars

(* ---------------------------- quiet mode ------------------------------ *)
\* quiet mode switched on and off around the indicators, an upload and
\* signal ticks
QuietLines == {K.ATQ1, K.ATQ0, K.CIER \o D.d1110, K.SBDWB \o <<"1">>}

NextQuiet ==
  \/ \E data \in QuietLines : nLines < MaxMixedLines /\ ReceiveLine(data)
  \/ \E bytes \in PortChunks : PortBinary(bytes)
  \/ BinaryEmit
  \/ Echo
  \/ Dispatch
  \/ UploadTimeout
  \/ SignalTick

SpecQuiet ==
  InitWith({"index"}, {"POOR"}, {"file"}) /\ [][NextQuiet]_vars

\* text with no CR and no LF in it, then CR LF
IsOneLine(bytes) ==
  /\ Len(bytes) >= 2
  /\ bytes[Len(bytes) - 1] = "\r"
  /\ bytes[Len(bytes)] = "\n"
  /\ \A i \in 1..(Len(bytes) - 2) : bytes[i] \notin {"\r", "\n"}

\* C19: while quietMode is true nothing is written to the transport (no
\* echo, reply, result code, READY or +CIEV), and every write that reaches
\* the transport is one line terminated by CRLF.
C19_QuietModeSuppresses ==
  [][/\ em'.quietMode => sent' = <<>>
     /\ \A i \in DOMAIN sent' : IsOneLine(sent'[i])]_vars

\* an upload has been stored in quiet mode: its result code '0' was written
\* and did not reach the transport
C19_ResultCodeSuppressed ==
  /\ step.op = "chunk"
  /\ em.quietMode
  /\ wrote = <<T.r0>>
  /\ sent = <<>>

(* ------------------------------ the echo ------------------------------ *)
\* the input stream ATE0 CRLF AT&K0 CRLF at every arrival timing of its
\* lines, with the signal ticker running
NextEcho ==
  \/ nLines = 0 /\ ReceiveLine(K.ATE0)
  \/ nLines >= 1 /\ nLines < MaxMixedLines /\ ReceiveLine(K.ATK0)
  \/ Echo
  \/ Dispatch
  \/ SignalTick

SpecEcho == InitWith({"index"}, {"POOR"}, {"file"}) /\ [][NextEcho]_vars

\* C20: with echo enabled at first, the input ATE0, AT&K0 produces the
\* outbound lines ATE0, OK, OK: the only line echoed is ATE0, the second
\* command is not echoed, and each dispatch writes OK, whenever the second
\* line arrives.
C20_SecondLineNotEchoed ==
  [][/\ step'.op = "echo" => step'.h.data = K.ATE0 /\ sent' = <<K.ATE0 \o CRLF>>
     /\ step'.op = "pre" => sent' = <<T.OK \o CRLF>>
     /\ step'.op \notin {"echo", "pre"} => sent' = <<>>]_vars

\* C20 when the second line arrives after ATE0 has been dispatched: it is
\* not echoed
LineAfterEchoOffNotEchoed ==
  [][(step'.op = "line" /\ ~em.echoEnabled) =>
       \A k \in DOMAIN timers' : timers'[k].kind # "echo"]_vars

(* ------------------------- handlers interleaved ----------------------- *)
\* AT+CSQ, which waits 2 s between its echo and its reply, and a command
\* that replies at once
InterleaveLines == {K.CSQ, K.ATK0}

NextInterleave ==
  \/ \E data \in InterleaveLines : ReceiveLine(data)
  \/ Echo
  \/ Dispatch
  \/ SignalQualityReply

SpecInterleave ==
  InitWith({"index"}, {"EXCELLENT"}, {"file"}) /\ [][NextInterleave]_vars

\* a suspended handler that has written its echo and not yet its final
\* reply (echo is enabled throughout SpecInterleave)
MidBlock(h) == h.kind \in {"pre", "regs", "csq", "long"}

MidBlockCount(ts) == Cardinality({k \in DOMAIN ts : MidBlock(ts[k])})

\* C21: the lines one handler writes (echo, intermediate lines, final
\* reply) are contiguous with respect to any other handler: whenever a
\* handler writes, no other handler is between its echo and its final
\* reply, even when the other was received during a wait of this one.
C21_HandlerBlocksContiguous ==
  [][(step'.op \in {"echo", "pre", "csq"} /\ wrote' # <<>>) =>
       MidBlockCount(timers) - (IF MidBlock(step'.h) THEN 1 ELSE 0) = 0]_vars

\* C21 for one handler at a time: with no other handler suspended, the
\* writes go echo, then reply
AloneEchoThenReply ==
  [][(Len(timers) = 1 /\ step'.op = "echo") =>
       /\ wrote' = <<step'.h.data>>
       /\ Len(timers') = 1
       /\ timers'[1].kind = "pre"]_vars

(* -------------------------- unknown commands -------------------------- *)
\* lines with a key the switch does not have (ATX, X=1, AT+SBDWB without
\* '=', and #handleData called with the empty string), between commands
\* that change the state
UnknownLines ==
  {<<>>, <<"A", "T", "X">>, <<"X", "=", "1">>, <<"A", "T", "+", "S", "B", "D", "W", "B">>,
   K.ATE0, K.CIER \o D.d1110}

NextUnknown ==
  \/ \E data \in UnknownLines : ReceiveLine(data)
  \/ Echo
  \/ Dispatch
  \/ SignalTick

SpecUnknown == InitWith({"index"}, {"POOR"}, {"file"}) /\ [][NextUnknown]_vars

\* the command key of a line: the line up to and including its first '=',
\* the whole line when it has none
KeyOf(line) ==
  IF \E i \in DOMAIN line : line[i] = "="
  THEN SubSeq(line, 1, CHOOSE i \in DOMAIN line :
                         line[i] = "=" /\ \A j \in 1..(i - 1) : line[j] # "=")
  ELSE line

\* the keys of the command matrix
CommandMatrix == {K[f] : f \in DOMAIN K}

\* C22: a line whose key is not in the command matrix, the empty line
\* included, is answered with ERROR and changes no field of the emulator:
\* no flag, buffer, counter or mode, and no timer is set.
C22_UnknownAnsweredError ==
  [][(step'.op = "pre" /\ KeyOf(step'.h.data) \notin CommandMatrix) =>
       /\ wrote' = <<T.ERROR>>
       /\ em' = em
       /\ \E k \in DOMAIN timers : timers' = Remove(timers, k)]_vars

\* the line ATX has been answered with ERROR after ATE0 switched echo off
C22_UnknownLineAnswered ==
  /\ step.op = "pre"
  /\ step.h.data = <<"A", "T", "X">>
  /\ wrote = <<T.ERROR>>
  /\ ~em.echoEnabled

(* ------------------------- the two framings --------------------------- *)
\* C23: in every state exactly one parser is piped to the port and it is
\* the one of the mode: the inter-byte-timeout parser iff binaryMode is
\* true, the readline parser iff binaryMode is false.
C23_OneParserPiped ==
  em.piped = IF em.binaryMode THEN {"binary"} ELSE {"readline"}

\* binary mode entered again, after an upload was stored and the readline
\* parser had been piped back
C23_BinaryPipedAgain ==
  /\ em.binaryMode
  /\ em.piped = {"binary"}
  /\ uploaded # Null

\* the step delivers a chunk that takes the accumulated bytes beyond the
\* expected L + 2
UploadOverflows ==
  /\ step'.op = "chunk"
  /\ em.binaryMode
  /\ em.binaryBufferLength.t = "num"
  /\ Len(FrameWith(step'.chunk)) > em.binaryBufferLength.n

\* C28: a chunk that makes the accumulated length exceed the expected
\* length writes '2' and returns to command mode with the timeout cancelled
\* and the accumulator cleared; the MO buffer is unchanged.
C28_OverflowRejected ==
  [][UploadOverflows =>
       /\ wrote' = <<T.r2>>
       /\ ~em'.binaryMode
       /\ ~TimeoutPending(timers')
       /\ em'.binaryBuffer = Null
       /\ em'.moBuffer = em.moBuffer]_vars

\* AT+SBDWB=2 and then chunks of 1, 1, 1 and 2 bytes: five bytes where four
\* were expected, answered '2' in command mode
C28_FiveBytesForFour ==
  /\ step.op = "chunk"
  /\ nLines = 1
  /\ nChunks = 4
  /\ Len(step.chunk) = 2
  /\ wrote = <<T.r2>>
  /\ ~em.binaryMode

\* C29: the 60 s upload timer is pending exactly while binaryMode is true;
\* every return to command mode cancels it, so '1' is written only by the
\* timer, in binary mode, never for an upload that has had its result code
\* and never in command mode.
C29_TimerPendingIffBinary ==
  /\ [](TimeoutPending(timers) <=> em.binaryMode)
  /\ [][/\ step'.op = "timeout" => em.binaryMode
        /\ (\E i \in DOMAIN wrote' : wrote'[i] = T.r1) => step'.op = "timeout"]_vars

\* back in command mode with a stored upload and no timer pending
C29_StoredAndCancelled ==
  /\ step.op = "chunk"
  /\ wrote = <<T.r0>>
  /\ ~em.binaryMode
  /\ ~TimeoutPending(timers)

(* ------------------------ clearing the buffers ------------------------ *)
\* AT+SBDD0, AT+SBDD1 and AT+SBDD2 around uploads of one byte
ClearLines == {K.SBDWB \o <<"1">>, K.SBDD0, K.SBDD1, K.SBDD2}

NextClear ==
  \/ \E data \in ClearLines : ReceiveLine(data)
  \/ \E bytes \in PortChunks : PortBinary(bytes)
  \/ BinaryEmit
  \/ Echo
  \/ Dispatch
  \/ UploadTimeout

SpecClear == InitWith({"index"}, {"EXCELLENT"}, {"file"}) /\ [][NextClear]_vars

\* the fields of the emulator after the command is dispatched in world w
Dispatched(command, w) ==
  LET v == dispatch(w, Closure("pre", command, 0, w.currentSignalQuality))
  IN  [f \in DOMAIN em |-> v[f]] @@ w

AllZero(buffer) == \A i \in DOMAIN buffer : buffer[i] = 0

\* C24: AT+SBDD0 twice gives the state AT+SBDD0 gives once, the MO buffer
\* all zero and the MT buffer untouched; AT+SBDD2 gives the MO and MT
\* buffers of AT+SBDD0 then AT+SBDD1 and of AT+SBDD1 then AT+SBDD0.
C24_ClearAlgebra ==
  LET once == Dispatched(K.SBDD0, World)
      twice == Dispatched(K.SBDD0, once)
      both == Dispatched(K.SBDD2, World)
      d01 == Dispatched(K.SBDD1, Dispatched(K.SBDD0, World))
      d10 == Dispatched(K.SBDD0, Dispatched(K.SBDD1, World))
  IN  /\ \A f \in DOMAIN em : twice[f] = once[f]
      /\ AllZero(once.moBuffer)
      /\ once.mtBuffer = em.mtBuffer
      /\ both.moBuffer = d01.moBuffer /\ both.mtBuffer = d01.mtBuffer
      /\ both.moBuffer = d10.moBuffer /\ both.mtBuffer = d10.mtBuffer
      /\ (step.op = "pre" /\ step.h.command \in {K.SBDD0, K.SBDD2}) =>
           AllZero(em.moBuffer)

\* AT+SBDD0 has been dispatched on a buffer that held an uploaded byte
C24_ClearedAfterUpload ==
  /\ step.op = "pre"
  /\ step.h.command = K.SBDD0
  /\ uploaded = <<1>>
  /\ AllZero(em.moBuffer)

(* ----------------------- sessions, radio disabled --------------------- *)
\* sessions of both kinds before and after the radio is switched off
RadioLines == {K.SBDIX, K.SBDIXA, K.R0}

NextRadio ==
  \/ \E data \in RadioLines : ReceiveLine(data)
  \/ Echo
  \/ Dispatch
  \/ SessionEnd
  \/ SignalTick

SpecRadio == InitWith({"index"}, {"POOR"}, {"file"}) /\ [][NextRadio]_vars

\* a number below 100 in decimal
Shown(n) ==
  IF n < 10 THEN <<DecDigits[n + 1]>>
  ELSE <<DecDigits[(n \div 10) + 1], DecDigits[(n % 10) + 1]>>

\* '+SBDIX: 34, <moSeq>, 2, <mtSeq>, 0, 0'
RadioOffLine(moSeq, mtSeq) ==
  <<"+", "S", "B", "D", "I", "X", ":", " ", "3", "4", ",", " ">> \o Shown(moSeq)
    \o <<",", " ", "2", ",", " ">> \o Shown(mtSeq)
    \o <<",", " ", "0", ",", " ", "0">>

\* C27: an AT+SBDIX or AT+SBDIXA dispatched while radioActivityEnabled is
\* false is answered in that step, with no long wait, by
\* '+SBDIX: 34, <moSeq>, 2, <mtSeq>, 0, 0' then 'OK'; moSeq and mtSeq are
\* unchanged and no sbd-message is emitted.
C27_RadioOffSession ==
  [][(/\ step'.op = "pre"
      /\ step'.h.command \in {K.SBDIX, K.SBDIXA}
      /\ ~em.radioActivityEnabled) =>
       /\ wrote' = <<RadioOffLine(em.moSequenceNo, em.mtSequenceNo), T.OK>>
       /\ \E k \in DOMAIN timers : timers' = Remove(timers, k)
       /\ em'.moSequenceNo = em.moSequenceNo
       /\ em'.mtSequenceNo = em.mtSequenceNo
       /\ emitted' = <<>>]_vars

\* a session refused with the radio off after one that succeeded
C27_RefusedAfterSuccess ==
  /\ step.op = "pre"
  /\ step.h.command = K.SBDIX
  /\ ~em.radioActivityEnabled
  /\ em.moSequenceNo = 1
  /\ wrote = <<RadioOffLine(1, 1), T.OK>>

(* --------------------------- the signer key --------------------------- *)
\* C26: whenever a session reaches its signing step the signer key has been
\* set: the key file is read, or generateKeyPair has called back, before
\* any session signs and emits.
C26_KeySetBeforeSigning ==
  [][SessionSucceeds => em.jwtSignerKey = "set"]_vars

\* C26 for a key read from a file: the constructor has set it before any
\* line is handled
KeyFromFileSet ==
  [](~keyGen => em.jwtSignerKey = "set")

(* ------------------------- the shutdown latch ------------------------- *)
\* C30: readyForShutdown is a latch: once true it never becomes false, and
\* a line received in command mode while it is true is ignored: nothing is
\* written, not even an echo, no wait is started and no field changes.
C30_ShutdownLatch ==
  [][em.readyForShutdown =>
       /\ em'.readyForShutdown
       /\ step'.op = "line" =>
            /\ wrote' = <<>>
            /\ sent' = <<>>
            /\ timers' = timers
            /\ em' = em]_vars

\* a line received after AT*F was executed, with no handler left suspended
C30_LineIgnoredAfterFlush ==
  /\ step.op = "line"
  /\ em.readyForShutdown
  /\ timers = <<>>

(* ----------------------- listeners that throw ------------------------- *)
\* sessions and signal ticks with a host whose listener of 'log', of
\* 'sbd-message' or of 'signer-key-generated' throws
NextObserver ==
  \/ ReceiveLine(K.SBDIX)
  \/ Echo
  \/ Dispatch
  \/ SessionEnd
  \/ SignalTick
  \/ KeyGenerated

SpecObserver ==
  /\ InitObserved({"index"}, {"POOR"}, {"generated"},
                  {{"log"}, {"sbd-message"}, {"signer-key-generated"}})
  /\ [][NextObserver]_vars

\* C25: a listener of log, sbd-message or signer-key-generated that throws
\* does not reach the engine: no callback is cut short, the command being
\* handled writes its reply, the transition under way completes (a session
\* that increments the counters replies, a tick sets the next tick), and
\* later lines are served.
C25_ListenerCannotDisturb ==
  [][(em.throwing # {} /\ em'.jwtSignerKey = "set") =>
       /\ ~step'.threw
       /\ SessionSucceeds => Len(wrote') = 2
       /\ step'.op = "tick" => tickTimers' = tickTimers
       /\ (step'.op = "line" /\ ~em.readyForShutdown) => Len(timers') = Len(timers) + 1]_vars

\* C25 for what is done before the listener is called: the counters are
\* incremented and the key is stored
DoneBeforeListener ==
  [][/\ (step'.op = "long" /\ step'.threw) => em'.moSequenceNo = em.moSequenceNo + 1
     /\ step'.op = "keygen" => em'.jwtSignerKey = "set"]_vars

(* ----------------------------- the ticker ----------------------------- *)
\* C31: the signal ticker never stops and never multiplies: exactly one
\* signal tick is pending in every state, each tick sets exactly one
\* successor, and no command cancels it.
C31_OneTickPending == tickTimers = 1

\* C31 for the commands and the other callbacks: only a tick changes the
\* number of pending ticks, and a tick that is not cut short by a listener
\* sets exactly one successor
OnlyListenerStopsTicker ==
  [][/\ step'.op # "tick" => tickTimers' = tickTimers
     /\ (step'.op = "tick" /\ ~step'.threw) => tickTimers' = tickTimers
     /\ tickTimers' <= 1]_vars

(* ---------------------- the exported helpers -------------------------- *)
\* calculateChecksum(buffer): checksum[1] = sum & 0xff; sum >>= 8;
\* checksum[0] = sum & 0xff
MutChecksumNoMask(buffer) ==
  LET sum == SumTo(buffer, Len(buffer))
  IN  <<sum \div 256, sum % 256>>
calculateChecksum(buffer) ==
  LET sum == SumTo(buffer, Len(buffer))
      low == sum % 256
      shifted == sum \div 256
  IN  <<shifted % 256, low>>

\* trimBuffer(buffer): the loop of LastNonZero, then
\* index === 0 ? Buffer.alloc(0) : buffer.subarray(0, index + 1)
trimBuffer(buffer) ==
  LET index == LastNonZero(buffer)
  IN  IF index = 0 THEN <<>> ELSE Slice(buffer, 0, index + 1)

\* The DTE builds its frame with calculateChecksum: payloads of 2
\* and of 340 bytes, of sums up to 340 * 255.
ChecksumLengths == {2, 340}

ChecksumPayloads ==
  {[i \in 1..n |-> v] : n \in ChecksumLengths, v \in {1, 255}}
    \cup {[i \in 1..n |-> IF i = 1 THEN 7 ELSE 255] : n \in ChecksumLengths}

ChecksumLines == {K.SBDWB \o ToStr(n) : n \in ChecksumLengths}

\* the DTE sends a payload and the checksum calculateChecksum gives for it
SendFrame ==
  \E payload \in ChecksumPayloads :
    PortBinary(payload \o calculateChecksum(payload))

NextChecksum ==
  \/ \E data \in ChecksumLines : nLines < MaxMixedLines /\ ReceiveLine(data)
  \/ SendFrame
  \/ BinaryEmit
  \/ Echo
  \/ Dispatch
  \/ UploadTimeout

SpecChecksum ==
  InitWith({"index"}, {"EXCELLENT"}, {"file"}) /\ [][NextChecksum]_vars

\* C32: calculateChecksum(payload) is the two bytes
\* [(sum mod 65536) div 256, sum mod 256] of the byte sum; the engine
\* answers '0' to payload followed by calculateChecksum(payload); and the
\* engine's inline checksum equals calculateChecksum, also for sums above
\* 65535.
C32_ChecksumsAgree ==
  [][/\ step'.op = "bytes" =>
          /\ TrailerOf(step'.chunk) =
               <<(SumBytes(PayloadOf(step'.chunk)) % 65536) \div 256,
                 SumBytes(PayloadOf(step'.chunk)) % 256>>
          /\ calculatedChecksum(PayloadOf(step'.chunk)) = TrailerOf(step'.chunk)
     /\ (/\ step'.op = "chunk"
         /\ em.binaryMode
         /\ em.binaryBuffer = Null
         /\ em.binaryBufferLength = Num(Len(step'.chunk))) =>
          wrote' = <<T.r0>>]_vars

\* 340 bytes of 255, sum 86700, accepted with the checksum 0x52 0xac
C32_SumAbove16Bits ==
  /\ step.op = "chunk"
  /\ Len(step.chunk) = 342
  /\ step.chunk[1] = 255
  /\ TrailerOf(step.chunk) = <<82, 172>>
  /\ wrote = <<T.r0>>

\* The host reads the moBuffer getter and trims what it got with trimBuffer.
Trim ==
  /\ step' = StepRec("trim", NoClosure, trimBuffer(em.moBuffer), 0, FALSE)
  /\ wrote' = <<>>
  /\ sent' = <<>>
  /\ emitted' = <<>>
  /\ UNCHANGED <<build, em, timers, tickTimers, keyGen, moAtReady, uploaded,
                 nLines, nChunks, nTicks>>

\* uploads of one and two bytes, each MO buffer trimmed by the host
NextTrim ==
  \/ \E data \in {K.SBDWB \o <<"1">>, K.SBDWB \o <<"2">>} : ReceiveLine(data)
  \/ \E bytes \in PortChunks : PortBinary(bytes)
  \/ BinaryEmit
  \/ Echo
  \/ Dispatch
  \/ UploadTimeout
  \/ Trim

SpecTrim == InitWith({"index"}, {"EXCELLENT"}, {"file"}) /\ [][NextTrim]_vars

\* C33: trimBuffer returns the prefix of the buffer up to and including its
\* last non-zero byte, and the empty buffer only when every byte is zero: a
\* buffer whose only non-zero byte is at index 0 yields that one byte.
C33_TrimKeepsThroughLastNonZero ==
  [][step'.op = "trim" =>
       /\ step'.chunk = StripTrailingZeros(em.moBuffer)
       /\ step'.chunk = <<>> => AllZero(em.moBuffer)]_vars

\* C33 when the last non-zero byte is not at index 0, and for a buffer of
\* zeros
TrimBeyondIndexZero ==
  [][(step'.op = "trim" /\ Len(StripTrailingZeros(em.moBuffer)) # 1) =>
       step'.chunk = StripTrailingZeros(em.moBuffer)]_vars

(* ------------------------ chunks of an upload ------------------------- *)
\* C34: the result of an upload depends only on the concatenation of the
\* bytes delivered, not on how they are cut into chunks: each chunk short
\* of the expected length is appended to the accumulator and nothing else
\* happens, and the chunk that completes len + 2 bytes gives the reply and
\* the MO buffer that the whole frame determines.
C34_ChunkingIrrelevant ==
  [][(step'.op = "chunk" /\ em.binaryMode /\ em.binaryBufferLength.t = "num") =>
       LET frame == FrameWith(step'.chunk)
           valid == TrailerOf(frame) = ChecksumOf(PayloadOf(frame))
       IN  /\ Len(frame) < em.binaryBufferLength.n =>
                /\ em' = [em EXCEPT !.binaryBuffer = frame, !.binaryParser = <<>>]
                /\ wrote' = <<>>
                /\ timers' = timers
           /\ Len(frame) = em.binaryBufferLength.n =>
                /\ wrote' = <<IF valid THEN T.r0 ELSE T.r2>>
                /\ em'.moBuffer = IF valid THEN ZeroPadded(PayloadOf(frame))
                                  ELSE em.moBuffer]_vars

\* an upload of two bytes stored from three chunks
C34_StoredFromThreeChunks ==
  /\ step.op = "chunk"
  /\ wrote = <<T.r0>>
  /\ nLines = 1
  /\ nChunks = 3
  /\ Len(uploaded) = 2

(* ------------------------ the end of a session ------------------------ *)
\* the end of a long wait wrote the +SBDIX line and OK
SessionReplied ==
  /\ step.op = "long"
  /\ Len(wrote) = 2
  /\ SubSeq(wrote[1], 1, Len(T.SBDIX)) = T.SBDIX
  /\ wrote[2] = T.OK

\* C35: every AT+SBDIX that is dispatched reaches its reply step, the
\* +SBDIX line followed by OK, in every execution, also when its long wait
\* ends before the key generation has finished and when other commands run
\* during the wait.  The handler has one wait after its dispatch, the long
\* one, and replies in the callback that ends it or never.
C35_SessionReachesReply ==
  [][step'.op = "long" => SessionReplied']_vars

\* C35 once the key is there: the end of every long wait replies
RepliesWithKey ==
  [][(step'.op = "long" /\ em.jwtSignerKey = "set") => SessionReplied']_vars

\* C36: no session ends in success (no counter is incremented, no
\* sbd-message is emitted) while radioActivityEnabled is false, also when
\* AT*R0 is executed during the session's long wait.
C36_NoSuccessWithRadioOff ==
  [][(step'.op = "long" /\ ~em.radioActivityEnabled) =>
       /\ em'.moSequenceNo = em.moSequenceNo
       /\ em'.mtSequenceNo = em.mtSequenceNo
       /\ SbdMessages(emitted') = {}]_vars

\* C36 after the next tick: with the radio off and the signal drawn again,
\* no session succeeds
NoSuccessOnceSignalDropped ==
  [][(step'.op = "long" /\ ~em.radioActivityEnabled /\ em.currentSignalQuality = 0) =>
       /\ em'.moSequenceNo = em.moSequenceNo
       /\ SbdMessages(emitted') = {}]_vars

\* '+SBDIX: 0, <moSeq>, 0, <mtSeq>, 0, 0'
SuccessLine(moSeq, mtSeq) ==
  <<"+", "S", "B", "D", "I", "X", ":", " ", "0", ",", " ">> \o Shown(moSeq)
    \o <<",", " ", "0", ",", " ">> \o Shown(mtSeq)
    \o <<",", " ", "0", ",", " ", "0">>

\* C37: the momsn of the sbd-message events increase strictly in the order
\* of emission, and the moSeq in a '+SBDIX: 0, ...' reply is the momsn of
\* the event the same session emitted, also with several sessions in
\* flight: a step emits at most one sbd-message, its momsn is above every
\* moSeq there was and is the moSeq the step leaves, moSeq never decreases,
\* and the step that writes a success reply emits the event of that momsn.
C37_MomsnIncreasesAndMatches ==
  [][/\ Cardinality(SbdMessages(emitted')) <= 1
     /\ em'.moSequenceNo >= em.moSequenceNo
     /\ \A i \in SbdMessages(emitted') :
          /\ emitted'[i].momsn > em.moSequenceNo
          /\ emitted'[i].momsn = em'.moSequenceNo
          /\ wrote' = <<SuccessLine(emitted'[i].momsn, em'.mtSequenceNo), T.OK>>
     /\ (step'.op = "long" /\ RepliedSuccess') =>
          \E i \in SbdMessages(emitted') :
            wrote'[1] = SuccessLine(emitted'[i].momsn, em'.mtSequenceNo)]_vars

\* the second of three sessions in flight has emitted momsn 2 and replied
\* with it
C37_SecondOfThree ==
  /\ step.op = "long"
  /\ \E i \in SbdMessages(emitted) : emitted[i].momsn = 2
  /\ wrote = <<SuccessLine(2, 2), T.OK>>
  /\ \E k \in DOMAIN timers : timers[k].kind = "long"

(* ------------------------ what changes moBuffer ----------------------- *)
\* an upload of one byte, sessions that succeed or fail, the clearing of
\* both buffers, the timeout and signal ticks
FrameLines == {K.SBDWB \o <<"1">>, K.SBDIX, K.SBDD2}

\* the frame 01 00 01 in two bursts, or the bursts the other way round
FrameChunks == {<<1>>, <<0, 1>>}

NextFrame ==
  \/ \E data \in FrameLines : ReceiveLine(data)
  \/ \E bytes \in FrameChunks : PortBinary(bytes)
  \/ BinaryEmit
  \/ Echo
  \/ Dispatch
  \/ UploadTimeout
  \/ SessionEnd
  \/ SignalTick

SpecFrame == InitWith({"index"}, {"OK"}, {"file"}) /\ [][NextFrame]_vars

\* C38: moBuffer changes only through an upload with a valid checksum,
\* AT+SBDD0 or AT+SBDD2; every other operation (a session that succeeds or
\* fails, an upload rejected or timed out, a signal tick) leaves it
\* unchanged, so a repeated AT+SBDIX sends the same data again under a new
\* momsn.
C38_MoBufferFrame ==
  [][/\ em'.moBuffer # em.moBuffer =>
          \/ UploadSucceeds
          \/ step'.op = "pre" /\ step'.h.command \in {K.SBDD0, K.SBDD2}
     /\ \A i \in SbdMessages(emitted') :
          /\ emitted'[i].momsn = em.moSequenceNo + 1
          /\ em'.moBuffer = em.moBuffer]_vars

\* the uploaded byte 01 sent a second time, as momsn 2
C38_SameDataNewMomsn ==
  /\ step.op = "long"
  /\ uploaded = <<1>>
  /\ \E i \in SbdMessages(emitted) :
       emitted[i].momsn = 2 /\ emitted[i].data = <<"0", "1">>
====
